---- MODULE Spec2Model ----
(***************************************************************************)
(* Dashboard filter state (DashboardState in dashboard-state.tsx), its     *)
(* refresh protocol (refreshDataWithTeams + the server actions             *)
(* refreshMetricsData / refreshSeatsData) and the collaborators they call. *)
(***************************************************************************)
EXTENDS Integers, Sequences, FiniteSets, Bags, TLC

VARIABLES
  apiData,                \* private apiData: CopilotUsageOutput[]
  filteredData,           \* public filteredData
  languages,              \* DropdownFilterItem[]
  editors,                \* DropdownFilterItem[]
  teams,                  \* DropdownFilterItem[]
  timeFrame,              \* "daily" | "weekly" | "monthly"
  hideWeekends,
  isLoading,
  seatsData,
  teamsData,
  hasPendingTeamChanges,
  currentFilter,
  inflight,               \* bag of the refreshDataWithTeams calls awaiting Promise.all
  args,                   \* the arguments of a service function called on its own
  result                  \* what that call returned

vars == <<apiData, filteredData, languages, editors, teams, timeFrame,
          hideWeekends, isLoading, seatsData, teamsData,
          hasPendingTeamChanges, currentFilter, inflight, args, result>>

(***************************************************************************)
(* Bounds of the model.                                                    *)
(***************************************************************************)
\* refreshDataWithTeams invocations that may overlap
MaxInFlight == 2

(***************************************************************************)
(* Sequence helpers.                                                       *)
(***************************************************************************)
Range(s) == {s[i] : i \in DOMAIN s}

RECURSIVE PushUnique(_, _)
\* forEach + findIndex === -1 + push: keeps the first occurrence of each value.
PushUnique(acc, s) ==
  IF s = <<>> THEN acc
  ELSE PushUnique(IF Head(s) \in Range(acc) THEN acc ELSE Append(acc, Head(s)),
                  Tail(s))

\* String.prototype.localeCompare on the values of the model: their collation.
Collation == <<"", "alpha", "beta", "go", "py", "vim", "vsc", "zz">>

Rank(v) == CHOOSE i \in DOMAIN Collation : Collation[i] = v

RECURSIVE InsertByDay(_, _)
InsertByDay(x, s) ==
  IF s = <<>> THEN <<x>>
  ELSE IF x.day < Head(s).day THEN <<x>> \o s
  ELSE <<Head(s)>> \o InsertByDay(x, Tail(s))

RECURSIVE SortByDay(_)
\* sort((a, b) => new Date(a.day).getTime() - new Date(b.day).getTime()):
\* ascending by day, records of the same day keep their order (stable sort).
SortByDay(s) ==
  IF s = <<>> THEN <<>>
  ELSE LET n == Len(s)
       IN InsertByDay(s[n], SortByDay(SubSeq(s, 1, n - 1)))

RECURSIVE InsertByValue(_, _)
InsertByValue(x, s) ==
  IF s = <<>> THEN <<x>>
  ELSE IF Rank(x.value) < Rank(Head(s).value) THEN <<x>> \o s
  ELSE <<Head(s)>> \o InsertByValue(x, Tail(s))

RECURSIVE SortByValue(_)
\* sort((a, b) => a.value.localeCompare(b.value))
SortByValue(s) ==
  IF s = <<>> THEN <<>>
  ELSE LET n == Len(s)
       IN InsertByValue(s[n], SortByValue(SubSeq(s, 1, n - 1)))

(***************************************************************************)
(* The calendar of the model: four consecutive days, Friday to Monday,     *)
(* the Saturday being the last day of a month.                             *)
(***************************************************************************)
Days == 1 .. 4

\* new Date(item.day).getDay(): 0 is Sunday, 6 is Saturday
getDay(d) == <<5, 6, 0, 1>>[d]

\* formatDate(item.day)
formatDate(d) == <<"D1", "D2", "D3", "D4">>[d]

\* the week bucket label of a day (weeks start on Monday)
WeekLabel(d) == <<"W1", "W1", "W1", "W2">>[d]

\* the month bucket label of a day
MonthLabel(d) == <<"M1", "M1", "M2", "M2">>[d]

\* Time-Bucket Labeler: every record gets its week, month and display label.
applyTimeFrameLabel(data) ==
  LET Label(r) == [day |-> r.day,
                   breakdown |-> r.breakdown,
                   time_frame_week |-> WeekLabel(r.day),
                   time_frame_month |-> MonthLabel(r.day),
                   time_frame_display |-> WeekLabel(r.day)]
      sorted == SortByDay(data)
  IN [i \in DOMAIN sorted |-> Label(sorted[i])]

(***************************************************************************)
(* The collaborators' data: what the vendor API / the store holds.         *)
(***************************************************************************)
Entry(l, e, n) == [language |-> l, editor |-> e, suggestions_count |-> n]

\* Daily usage rows; team "" is the organization-level row (c.team = null).
MetricsStore ==
  << [day |-> 1, team |-> "", breakdown |-> <<Entry("go", "vim", 3), Entry("py", "vsc", 2)>>],
     [day |-> 2, team |-> "", breakdown |-> <<Entry("go", "vsc", 1)>>],
     [day |-> 4, team |-> "", breakdown |-> <<Entry("py", "vim", 4)>>],
     [day |-> 2, team |-> "alpha", breakdown |-> <<Entry("go", "vim", 1)>>],
     [day |-> 4, team |-> "alpha", breakdown |-> <<Entry("go", "vsc", 2)>>],
     [day |-> 2, team |-> "beta", breakdown |-> <<Entry("go", "vim", 1)>>],
     [day |-> 3, team |-> "beta", breakdown |-> <<Entry("py", "vim", 1)>>] >>

\* last_activity_at is the age of the last activity in days; NullDate is null.
NullDate == 0 - 1

Seat(l, t, a) == [login |-> l, assigning_team |-> t, last_activity_at |-> a]

\* The pages of the seat listing, as the API returns them.
SeatStore ==
  << <<Seat("a", "alpha", 0), Seat("b", "beta", 40)>>,
     <<Seat("a", "alpha", 0), Seat("c", "", NullDate)>> >>

\* The team list of the page load: one name twice, one team without a name.
TeamStore ==
  << [id |-> 3, name |-> ""], [id |-> 1, name |-> "alpha"], [id |-> 4, name |-> "alpha"] >>

\* The server filter (searchParams) of the model: one date range, one scope.
Filter(s, e) == [startDate |-> s, endDate |-> e, enterprise |-> "", organization |-> "org"]

Filters == {Filter(1, 4)}

\* currentFilter = {} before the first initData
NoFilter == [startDate |-> NullDate, endDate |-> NullDate,
             enterprise |-> "", organization |-> ""]

(***************************************************************************)
(* copilot-metrics-service                                                 *)
(***************************************************************************)
\* since / until (c.date >= @start AND c.date <= @end)
InRange(filter, d) ==
  /\ filter.startDate # NullDate => filter.startDate <= d
  /\ filter.endDate # NullDate => d <= filter.endDate

RowsOf(filter, team) ==
  SelectSeq(MetricsStore, LAMBDA r : r.team = team /\ InRange(filter, r.day))

\* the entities of the usage API: the organization ("") and its teams
Entities == {"", "alpha", "beta"}

RECURSIVE Pages(_, _)
\* the pages in which the API serves rows, perPage rows a page; every page
\* but the last carries a link header with rel="next"
Pages(rows, perPage) ==
  IF Len(rows) <= perPage THEN <<rows>>
  ELSE <<SubSeq(rows, 1, perPage)>> \o Pages(SubSeq(rows, perPage + 1, Len(rows)), perPage)

\* what the API answers on each entity's endpoint: ok[e] is response.ok
ApiServing(filter, ok, perPage) ==
  [e \in Entities |->
     [ok |-> ok[e], throws |-> FALSE, at |-> 0,
      pages |-> Pages(RowsOf(filter, e), perPage)]]

\* The outcomes of one GET: response.ok, a non-success status, or fetch /
\* response.json() throwing (network failure, malformed JSON).
FetchOutcomes == {"ok", "error", "throws"}

\* what the API does on each entity's endpoint when parallel requests race:
\* the request to first settles before the requests to the other entities
ApiRacing(filter, outcome, perPage, first) ==
  [e \in Entities |->
     [ok |-> outcome[e] = "ok", throws |-> outcome[e] = "throws",
      at |-> IF e = first THEN 1 ELSE 2,
      pages |-> Pages(RowsOf(filter, e), perPage)]]

\* the exception thrown by the request to an entity
Thrown(entityName) ==
  CASE entityName = "alpha" -> "alpha threw"
    [] entityName = "beta" -> "beta threw"
    [] OTHER -> "threw"

\* unknownResponseError(e): an error result wrapping the exception
unknownResponseError(e) == [status |-> "ERROR", errors |-> e]

\* fetchCopilotMetrics: one GET; the body of that response, labelled.  It
\* has no try / catch: when the GET throws, its promise rejects, at the
\* time the request settles.
fetchCopilotMetrics(endpoint, entityName) ==
  IF endpoint.throws
  THEN [status |-> "REJECTED", reason |-> Thrown(entityName), at |-> endpoint.at]
  ELSE IF ~endpoint.ok
  THEN [status |-> "ERROR", errors |-> entityName]
  ELSE [status |-> "OK", response |-> applyTimeFrameLabel(endpoint.pages[1])]

RECURSIVE PushAll(_)
\* teamMetricsResults.forEach(result => allMetrics.push(...result.response))
PushAll(results) ==
  IF results = <<>> THEN <<>>
  ELSE (IF Head(results).status = "OK" THEN Head(results).response ELSE <<>>)
         \o PushAll(Tail(results))

\* Variant of getCopilotTeamsMetricsFromApi that merges the teams that
\* answered and reports success.
getCopilotTeamsMetricsFromApiMerging(filter, api) ==
  LET teamMetricsResults ==
        [i \in DOMAIN filter.team |->
           fetchCopilotMetrics(api[filter.team[i]], filter.team[i])]
  IN [status |-> "OK", response |-> SortByDay(PushAll(teamMetricsResults))]

\* Variant of getCopilotTeamsMetricsFromApi without the final sort.
getCopilotTeamsMetricsFromApiUnsorted(filter, api) ==
  LET teamMetricsResults ==
        [i \in DOMAIN filter.team |->
           fetchCopilotMetrics(api[filter.team[i]], filter.team[i])]
      failedResults == SelectSeq(teamMetricsResults, LAMBDA r : r.status # "OK")
  IN IF filter.team = <<>> THEN [status |-> "OK", response |-> <<>>]
     ELSE IF failedResults # <<>> THEN failedResults[1]
     ELSE [status |-> "OK", response |-> PushAll(teamMetricsResults)]

\* await Promise.all(promises): the promises that rejected, and the one of
\* them that rejected first, with whose reason Promise.all rejects
Rejections(results) == {i \in DOMAIN results : results[i].status = "REJECTED"}

FirstRejection(results) ==
  results[CHOOSE i \in Rejections(results) :
            \A j \in Rejections(results) :
              \/ results[i].at < results[j].at
              \/ results[i].at = results[j].at /\ i <= j]

\* Variant of getCopilotTeamsMetricsFromApi that returns the last of the
\* failed results.
getCopilotTeamsMetricsFromApiLastError(filter, api) ==
  LET teamMetricsResults ==
        [i \in DOMAIN filter.team |->
           fetchCopilotMetrics(api[filter.team[i]], filter.team[i])]
      failedResults == SelectSeq(teamMetricsResults, LAMBDA r : r.status # "OK")
  IN IF filter.team = <<>> THEN [status |-> "OK", response |-> <<>>]
     ELSE IF Rejections(teamMetricsResults) # {}
     THEN unknownResponseError(FirstRejection(teamMetricsResults).reason)
     ELSE IF failedResults # <<>> THEN failedResults[Len(failedResults)]
     ELSE [status |-> "OK", response |-> SortByDay(PushAll(teamMetricsResults))]

\* getCopilotTeamsMetricsFromApi: one request per team, joined by Promise.all
\* inside try / catch
getCopilotTeamsMetricsFromApi(filter, api) ==
  LET teamMetricsResults ==
        [i \in DOMAIN filter.team |->
           fetchCopilotMetrics(api[filter.team[i]], filter.team[i])]
      failedResults == SelectSeq(teamMetricsResults, LAMBDA r : r.status # "OK")
  IN IF filter.team = <<>> THEN [status |-> "OK", response |-> <<>>]
     ELSE IF Rejections(teamMetricsResults) # {}
     THEN unknownResponseError(FirstRejection(teamMetricsResults).reason)
     ELSE IF failedResults # <<>> THEN failedResults[1]
     ELSE [status |-> "OK", response |-> SortByDay(PushAll(teamMetricsResults))]

\* getCopilotMetricsFromApi: the scope-level endpoint
getCopilotMetricsFromApi(filter, api) ==
  IF filter.team # <<>> THEN getCopilotTeamsMetricsFromApi(filter, api)
  ELSE fetchCopilotMetrics(api[""], filter.organization)

\* the largest number of rows an endpoint holds: a page of that size holds
\* every row of the date range
WholeRange == Len(MetricsStore)

\* getCopilotMetrics: outcome "ok" is every request answered with success,
\* "error" a non-success status of the collaborator (or a caught exception).
getCopilotMetrics(filter, outcome) ==
  LET api == ApiServing(filter, [e \in Entities |-> outcome = "ok"], WholeRange)
  IN IF filter.team # <<>>
     THEN getCopilotTeamsMetricsFromApi(filter, api)
     ELSE getCopilotMetricsFromApi(filter, api)

\* refreshMetricsData (server action): success + data, or success: false.
refreshMetricsData(filter, outcome) ==
  LET metricsFilter == [startDate |-> filter.startDate,
                        endDate |-> filter.endDate,
                        enterprise |-> filter.enterprise,
                        organization |-> filter.organization,
                        team |-> filter.teams]
      metrics == getCopilotMetrics(metricsFilter, outcome)
  IN IF metrics.status # "OK"
     THEN [success |-> FALSE, error |-> "Failed to fetch metrics"]
     ELSE [success |-> TRUE, data |-> metrics.response]

(***************************************************************************)
(* copilot-seat-service                                                    *)
(***************************************************************************)
\* program constant: the trailing window of activity, in days
ActiveWindowDays == 30

\* last_activity_at is set and lastActivityDate >= thirtyDaysAgo
IsActive(seat) ==
  seat.last_activity_at # NullDate /\ seat.last_activity_at <= ActiveWindowDays

CountActive(seats) == Len(SelectSeq(seats, IsActive))

RECURSIVE Flatten(_)
\* data.flatMap((seatData) => seatData.seats)
Flatten(data) ==
  IF data = <<>> THEN <<>> ELSE Head(data).seats \o Flatten(Tail(data))

RECURSIVE LastByLogin(_, _)
\* Variant of UniqueByLogin in which a later seat of a login replaces the
\* earlier one (uniqueSeatsMap.set without the has test).
LastByLogin(acc, seats) ==
  IF seats = <<>> THEN acc
  ELSE LastByLogin(
         IF \E i \in DOMAIN acc : acc[i].login = Head(seats).login
         THEN [i \in DOMAIN acc |->
                 IF acc[i].login = Head(seats).login THEN Head(seats) ELSE acc[i]]
         ELSE Append(acc, Head(seats)),
         Tail(seats))

RECURSIVE UniqueByLogin(_, _)
\* uniqueSeatsMap: the first seat of each assignee login, in insertion order
UniqueByLogin(acc, seats) ==
  IF seats = <<>> THEN acc
  ELSE UniqueByLogin(
         IF \E i \in DOMAIN acc : acc[i].login = Head(seats).login
         THEN acc ELSE Append(acc, Head(seats)),
         Tail(seats))

\* seat.assigning_team?.name && teamFilter.includes(seat.assigning_team.name)
TeamFiltered(seats, teamFilter) ==
  IF teamFilter # <<>>
  THEN SelectSeq(seats, LAMBDA seat : seat.assigning_team # ""
                                      /\ seat.assigning_team \in Range(teamFilter))
  ELSE seats

\* Variant of aggregateSeatsData that counts the active seats of several
\* documents before the deduplication.
aggregateSeatsDataCountingAll(data, teamFilter) ==
  IF Len(data) = 0
  THEN [total_seats |-> 0, total_active_seats |-> 0, seats |-> <<>>]
  ELSE IF Len(data) = 1
  THEN LET filteredSeats == TeamFiltered(data[1].seats, teamFilter)
       IN [data[1] EXCEPT !.total_seats = Len(filteredSeats),
                          !.total_active_seats = CountActive(filteredSeats),
                          !.seats = filteredSeats]
  ELSE LET filteredSeats == TeamFiltered(Flatten(data), teamFilter)
           seats == UniqueByLogin(<<>>, filteredSeats)
       IN [organization |-> data[1].organization,
           total_seats |-> Len(seats),
           total_active_seats |-> CountActive(filteredSeats),
           page |-> data[1].page,
           has_next_page |-> FALSE,
           seats |-> seats]

\* Variant of aggregateSeatsData whose single-document branch returns the
\* seats newest first.
aggregateSeatsDataNewestFirst(data, teamFilter) ==
  IF Len(data) = 0
  THEN [total_seats |-> 0, total_active_seats |-> 0, seats |-> <<>>]
  ELSE IF Len(data) = 1
  THEN LET filteredSeats == TeamFiltered(data[1].seats, teamFilter)
           n == Len(filteredSeats)
       IN [data[1] EXCEPT !.total_seats = n,
                          !.total_active_seats = CountActive(filteredSeats),
                          !.seats = [i \in 1 .. n |-> filteredSeats[n + 1 - i]]]
  ELSE LET filteredSeats == TeamFiltered(Flatten(data), teamFilter)
           seats == UniqueByLogin(<<>>, filteredSeats)
       IN [organization |-> data[1].organization,
           total_seats |-> Len(seats),
           total_active_seats |-> CountActive(seats),
           page |-> data[1].page,
           has_next_page |-> FALSE,
           seats |-> seats]

\* Variant of aggregateSeatsData whose single-document branch keeps the
\* totals of the document.
aggregateSeatsDataKeepingTotals(data, teamFilter) ==
  IF Len(data) = 0
  THEN [total_seats |-> 0, total_active_seats |-> 0, seats |-> <<>>]
  ELSE IF Len(data) = 1
  THEN [data[1] EXCEPT !.seats = TeamFiltered(data[1].seats, teamFilter)]
  ELSE LET filteredSeats == TeamFiltered(Flatten(data), teamFilter)
           seats == UniqueByLogin(<<>>, filteredSeats)
       IN [organization |-> data[1].organization,
           total_seats |-> Len(seats),
           total_active_seats |-> CountActive(seats),
           page |-> data[1].page,
           has_next_page |-> FALSE,
           seats |-> seats]

aggregateSeatsData(data, teamFilter) ==
  IF Len(data) = 0
  THEN [total_seats |-> 0, total_active_seats |-> 0, seats |-> <<>>]
  ELSE IF Len(data) = 1
  THEN LET filteredSeats == TeamFiltered(data[1].seats, teamFilter)
       IN [data[1] EXCEPT !.total_seats = Len(filteredSeats),
                          !.total_active_seats = CountActive(filteredSeats),
                          !.seats = filteredSeats]
  ELSE LET filteredSeats == TeamFiltered(Flatten(data), teamFilter)
           seats == UniqueByLogin(<<>>, filteredSeats)
       IN [organization |-> data[1].organization,
           total_seats |-> Len(seats),
           total_active_seats |-> CountActive(seats),
           page |-> data[1].page,
           has_next_page |-> FALSE,
           seats |-> seats]

\* getDataFromApi: one CopilotSeatsData per page of the listing, each with the
\* count of active seats of all pages.
getDataFromApi(filter) ==
  LET n == Len(SeatStore)
      raw == [i \in 1 .. n |->
                [organization |-> filter.organization,
                 seats |-> SeatStore[i],
                 total_seats |-> Len(SeatStore[i]),
                 total_active_seats |-> 0,
                 page |-> i,
                 has_next_page |-> i < n]]
      allActiveSeatsCount == CountActive(Flatten(raw))
  IN [i \in 1 .. n |-> [raw[i] EXCEPT !.total_active_seats = allActiveSeatsCount]]

\* getCopilotSeatsFromApi / getCopilotSeatsFromDatabase; outcome "error" is a
\* non-success answer of the seat API or store.
getCopilotSeats(filter, outcome) ==
  IF outcome # "ok"
  THEN [status |-> "ERROR"]
  ELSE [status |-> "OK",
        response |-> aggregateSeatsData(getDataFromApi(filter), filter.team)]

\* {} as CopilotSeatsData
EmptySeats == [empty |-> TRUE]

\* getCopilotSeatsManagement; outcome "env" is ensureGitHubEnvConfig failing.
getCopilotSeatsManagement(filter, outcome) ==
  IF outcome = "env" THEN [status |-> "ERROR"]
  ELSE LET data == getCopilotSeats(filter, outcome)
       IN IF data.status # "OK"
          THEN [status |-> "OK", response |-> EmptySeats]
          ELSE [status |-> "OK", response |-> data.response]

\* refreshSeatsData (server action)
refreshSeatsData(filter, outcome) ==
  LET seats == getCopilotSeatsManagement(
                 [enterprise |-> filter.enterprise,
                  organization |-> filter.organization,
                  team |-> filter.teams], outcome)
  IN IF seats.status # "OK"
     THEN [success |-> FALSE, error |-> "Failed to fetch seats data"]
     ELSE [success |-> TRUE, data |-> seats.response]

(***************************************************************************)
(* data-mapper                                                             *)
(***************************************************************************)
\* The representative of a bucket: its newest-dated member (of several
\* members of that day, the last one).
Newest(items) ==
  LET i == CHOOSE k \in DOMAIN items :
             /\ \A j \in DOMAIN items : items[j].day <= items[k].day
             /\ \A j \in DOMAIN items : items[j].day = items[k].day => j <= k
  IN items[i]

\* groupByTimeFrame: one row per bucket, in the order of the buckets, holding
\* the breakdown of the bucket's representative as it is.
groupByTimeFrame(groupedByTimeFrame) ==
  [i \in DOMAIN groupedByTimeFrame |->
     [Newest(groupedByTimeFrame[i].items)
        EXCEPT !.time_frame_display = groupedByTimeFrame[i].label]]

(***************************************************************************)
(* DashboardState.  A method is an operator from the store it is called on *)
(* (this) to the store it leaves.                                          *)
(***************************************************************************)
TimeFrames == {"daily", "weekly", "monthly"}

Item(v) == [value |-> v, isSelected |-> FALSE]

Selected(items) == {items[i].value : i \in {j \in DOMAIN items : items[j].isSelected}}

RECURSIVE BreakdownsOf(_)
\* this.apiData.forEach((item) => item.breakdown.forEach(...))
BreakdownsOf(data) ==
  IF data = <<>> THEN <<>> ELSE Head(data).breakdown \o BreakdownsOf(Tail(data))

\* Variant of extractUniqueLanguages that pushes an item per breakdown
\* entry, without the findIndex test.
extractLanguagesOfEveryEntry(this) ==
  LET all == BreakdownsOf(this.apiData)
  IN SortByValue([i \in DOMAIN all |-> Item(all[i].language)])

extractUniqueLanguages(this) ==
  LET all == BreakdownsOf(this.apiData)
      values == PushUnique(<<>>, [i \in DOMAIN all |-> all[i].language])
  IN SortByValue([i \in DOMAIN values |-> Item(values[i])])

extractUniqueEditors(this) ==
  LET all == BreakdownsOf(this.apiData)
      values == PushUnique(<<>>, [i \in DOMAIN all |-> all[i].editor])
  IN SortByValue([i \in DOMAIN values |-> Item(values[i])])

extractUniqueTeams(this) ==
  LET named == SelectSeq(this.teamsData, LAMBDA team : team.name # "")
      values == PushUnique(<<>>, [i \in DOMAIN named |-> named[i].name])
  IN SortByValue([i \in DOMAIN values |-> Item(values[i])])

\* day !== 0 && day !== 6
IsWeekday(item) == getDay(item.day) # 0 /\ getDay(item.day) # 6

BucketLabel(item, tf) ==
  IF tf = "weekly" THEN item.time_frame_week ELSE item.time_frame_month

\* Variant of aggregatedDataByTimeFrame that groups every record into its
\* bucket and removes the weekend rows afterwards.
aggregatedDataGroupingFirst(this, hide) ==
  LET items == this.apiData
      tf == this.timeFrame
      labels == PushUnique(<<>>, [i \in DOMAIN items |-> BucketLabel(items[i], tf)])
      grouped == [k \in DOMAIN labels |->
                    [label |-> labels[k],
                     items |-> SelectSeq(items,
                                 LAMBDA item : BucketLabel(item, tf) = labels[k])]]
      rows == IF tf = "daily"
              THEN [i \in DOMAIN items |->
                      [items[i] EXCEPT !.time_frame_display = formatDate(items[i].day)]]
              ELSE groupByTimeFrame(grouped)
  IN IF hide THEN SelectSeq(rows, IsWeekday) ELSE rows

\* aggregatedDataByTimeFrame works on a deep copy of this.apiData
aggregatedDataByTimeFrame(this, hide) ==
  LET items == IF hide THEN SelectSeq(this.apiData, IsWeekday) ELSE this.apiData
      tf == this.timeFrame
  IN IF tf = "daily"
     THEN [i \in DOMAIN items |->
             [items[i] EXCEPT !.time_frame_display = formatDate(items[i].day)]]
     ELSE LET labels == PushUnique(<<>>, [i \in DOMAIN items |-> BucketLabel(items[i], tf)])
              grouped == [k \in DOMAIN labels |->
                            [label |-> labels[k],
                             items |-> SelectSeq(items,
                                         LAMBDA item : BucketLabel(item, tf) = labels[k])]]
          IN groupByTimeFrame(grouped)

\* item.breakdown filtered by the selected values of one facet, if any
FilterBreakdown(data, selected, facet) ==
  IF selected = {} THEN data
  ELSE [i \in DOMAIN data |->
          [data[i] EXCEPT !.breakdown =
             SelectSeq(data[i].breakdown,
                       LAMBDA b : IF facet = "language" THEN b.language \in selected
                                  ELSE b.editor \in selected)]]

applyFilters(this) ==
  LET data == aggregatedDataByTimeFrame(this, this.hideWeekends)
      byLanguage == FilterBreakdown(data, Selected(this.languages), "language")
      byEditor == FilterBreakdown(byLanguage, Selected(this.editors), "editor")
  IN [this EXCEPT !.filteredData =
        SelectSeq(byEditor, LAMBDA item : Len(item.breakdown) > 0)]

Has(items, v) == \E i \in DOMAIN items : items[i].value = v

\* items.find((l) => l.value === v): the index of the first item of that value
Find(items, v) ==
  CHOOSE k \in DOMAIN items :
    items[k].value = v /\ \A j \in 1 .. k - 1 : items[j].value # v

\* item.isSelected = !item.isSelected
Toggle(items, v) ==
  LET k == Find(items, v)
  IN [items EXCEPT ![k] = [@ EXCEPT !.isSelected = ~@]]

ClearAll(items) == [i \in DOMAIN items |-> [items[i] EXCEPT !.isSelected = FALSE]]

\* Variant of RestoreSelections that leaves the rebuilt items as extracted.
KeepExtracted(fresh, previous) == fresh

\* this.teams.forEach: previousSelection found by value => its isSelected
RestoreSelections(fresh, previous) ==
  [i \in DOMAIN fresh |->
     IF Has(previous, fresh[i].value)
     THEN [fresh[i] EXCEPT !.isSelected =
             previous[Find(previous, fresh[i].value)].isSelected]
     ELSE fresh[i]]

onTimeFrameChange(this, tf) == applyFilters([this EXCEPT !.timeFrame = tf])

initData(this, data, seats, td, filter) ==
  LET loaded == [this EXCEPT !.apiData = data, !.filteredData = data]
      \* onTimeFrameChange(this.timeFrame) runs applyFilters before the dropdown
      \* collections are rebuilt
      bucketed == [onTimeFrameChange(loaded, loaded.timeFrame)
                     EXCEPT !.seatsData = seats, !.teamsData = td]
  IN [bucketed EXCEPT !.languages = extractUniqueLanguages(bucketed),
                      !.editors = extractUniqueEditors(bucketed),
                      !.teams = extractUniqueTeams(bucketed),
                      !.currentFilter = filter]

\* Variant of filterLanguage that recomputes filteredData even when no item
\* has the value.
filterLanguageRecomputing(this, language) ==
  applyFilters(IF Has(this.languages, language)
               THEN [this EXCEPT !.languages = Toggle(@, language)]
               ELSE this)

filterLanguage(this, language) ==
  IF Has(this.languages, language)
  THEN applyFilters([this EXCEPT !.languages = Toggle(@, language)])
  ELSE this

filterEditor(this, editor) ==
  IF Has(this.editors, editor)
  THEN applyFilters([this EXCEPT !.editors = Toggle(@, editor)])
  ELSE this

filterTeam(this, team) ==
  IF Has(this.teams, team)
  THEN [applyFilters([this EXCEPT !.teams = Toggle(@, team)])
          EXCEPT !.hasPendingTeamChanges = TRUE]
  ELSE this

\* Variant of toggleWeekendFilter that removes the weekend records from
\* apiData itself.
toggleWeekendFilterReducing(this, hide) ==
  applyFilters([this EXCEPT !.hideWeekends = hide,
                            !.apiData = IF hide THEN SelectSeq(@, IsWeekday) ELSE @])

toggleWeekendFilter(this, hide) == applyFilters([this EXCEPT !.hideWeekends = hide])

\* Variant of Invocation whose seats request carries the start of the date
\* range.
InvocationSeatsFromStart(this, caller, selectedTeams) ==
  [caller |-> caller,
   metrics |-> [startDate |-> this.currentFilter.startDate,
                endDate |-> this.currentFilter.endDate,
                enterprise |-> this.currentFilter.enterprise,
                organization |-> this.currentFilter.organization,
                teams |-> selectedTeams],
   seats |-> [date |-> this.currentFilter.startDate,
              enterprise |-> this.currentFilter.enterprise,
              organization |-> this.currentFilter.organization,
              teams |-> selectedTeams]]

\* The two requests of one refreshDataWithTeams(selectedTeams) call; caller
\* is the method awaiting it ("close": refreshTeamDataIfNeeded, "reset":
\* resetAllFilters).
Invocation(this, caller, selectedTeams) ==
  [caller |-> caller,
   metrics |-> [startDate |-> this.currentFilter.startDate,
                endDate |-> this.currentFilter.endDate,
                enterprise |-> this.currentFilter.enterprise,
                organization |-> this.currentFilter.organization,
                teams |-> selectedTeams],
   seats |-> [date |-> this.currentFilter.endDate,
              enterprise |-> this.currentFilter.enterprise,
              organization |-> this.currentFilter.organization,
              teams |-> selectedTeams]]

\* Variant of SelectedTeams that forgets the isSelected test.
EveryTeam(this) == [i \in DOMAIN this.teams |-> this.teams[i].value]

\* this.teams.filter((t) => t.isSelected).map((t) => t.value)
SelectedTeams(this) ==
  LET chosen == SelectSeq(this.teams, LAMBDA t : t.isSelected)
  IN [i \in DOMAIN chosen |-> chosen[i].value]

\* refreshDataWithTeams up to its await: this.isLoading = true and both
\* requests issued.  The result is the store and the calls now awaited.
refreshDataWithTeams(this, caller, selectedTeams) ==
  [store |-> [this EXCEPT !.isLoading = TRUE],
   issued |-> SetToBag({Invocation(this, caller, selectedTeams)})]

\* Variant of refreshTeamDataIfNeeded that does not test the pending flag.
refreshTeamDataIfNeededAlways(this) ==
  refreshDataWithTeams(this, "close", SelectedTeams(this))

\* Variant of refreshTeamDataIfNeeded that clears the pending flag before
\* it awaits the refresh.
refreshTeamDataIfNeededClearingFirst(this) ==
  IF this.hasPendingTeamChanges
  THEN refreshDataWithTeams([this EXCEPT !.hasPendingTeamChanges = FALSE],
                            "close", SelectedTeams(this))
  ELSE [store |-> this, issued |-> EmptyBag]

\* refreshTeamDataIfNeeded up to its await
refreshTeamDataIfNeeded(this) ==
  IF this.hasPendingTeamChanges
  THEN refreshDataWithTeams(this, "close", SelectedTeams(this))
  ELSE [store |-> this, issued |-> EmptyBag]

\* Variant of resetAllFilters that leaves the editor selection alone.
resetAllFiltersKeepingEditors(this) ==
  LET cleared == [this EXCEPT !.languages = ClearAll(@),
                              !.teams = ClearAll(@),
                              !.hideWeekends = FALSE,
                              !.hasPendingTeamChanges = FALSE]
  IN refreshDataWithTeams(applyFilters(cleared), "reset", <<>>)

\* Variant of resetAllFilters that skips the refresh when no team was
\* selected and no team change was pending.
resetAllFiltersIfTeamsChanged(this) ==
  LET cleared == applyFilters([this EXCEPT !.languages = ClearAll(@),
                                           !.editors = ClearAll(@),
                                           !.teams = ClearAll(@),
                                           !.hideWeekends = FALSE,
                                           !.hasPendingTeamChanges = FALSE])
  IN IF Selected(this.teams) = {} /\ ~this.hasPendingTeamChanges
     THEN [store |-> cleared, issued |-> EmptyBag]
     ELSE refreshDataWithTeams(cleared, "reset", <<>>)

\* resetAllFilters up to its await
resetAllFilters(this) ==
  LET cleared == [this EXCEPT !.languages = ClearAll(@),
                              !.editors = ClearAll(@),
                              !.teams = ClearAll(@),
                              !.hideWeekends = FALSE,
                              !.hasPendingTeamChanges = FALSE]
  IN refreshDataWithTeams(applyFilters(cleared), "reset", <<>>)

\* The outcomes of the two server actions of one refresh: each call resolves
\* with the answer of its collaborator (for the seat service "error" is a
\* non-success answer of the seat API or store, "env" a failing
\* ensureGitHubEnvConfig), or Promise.all rejects.
MetricsOutcomes == {"ok", "error"}
SeatsOutcomes == {"ok", "error", "env"}
Rejected == [metrics |-> "rejected", seats |-> "rejected"]
RefreshOutcomes == [metrics : MetricsOutcomes, seats : SeatsOutcomes] \cup {Rejected}

\* if (metricsResult.success && metricsResult.data) { ... }
applyMetricsResult(this, metricsResult) ==
  IF metricsResult.success /\ "data" \in DOMAIN metricsResult
  THEN LET replaced == [this EXCEPT !.apiData = metricsResult.data]
           extracted == [replaced EXCEPT
                           !.languages = extractUniqueLanguages(replaced),
                           !.editors = extractUniqueEditors(replaced)]
           currentTeamSelections == extracted.teams
       IN applyFilters([extracted EXCEPT !.teams =
            RestoreSelections(extractUniqueTeams(extracted), currentTeamSelections)])
  ELSE this

\* if (seatsResult.success && seatsResult.data) { ... }
applySeatsResult(this, seatsResult) ==
  IF seatsResult.success /\ "data" \in DOMAIN seatsResult
  THEN [this EXCEPT !.seatsData = seatsResult.data]
  ELSE this

\* Variant of refreshSettled without the finally clause: a rejection leaves
\* the loading flag set.
refreshSettledNoFinally(this, call, outcome) ==
  LET metricsResult == refreshMetricsData(call.metrics, outcome.metrics)
      seatsResult == refreshSeatsData(call.seats, outcome.seats)
      tried == IF outcome = Rejected THEN this
               ELSE [applySeatsResult(applyMetricsResult(this, metricsResult),
                                      seatsResult) EXCEPT !.isLoading = FALSE]
  IN IF call.caller = "close"
     THEN [tried EXCEPT !.hasPendingTeamChanges = FALSE]
     ELSE tried

\* Variant of refreshSettled that is atomic across the two calls: nothing is
\* applied unless both succeeded.
refreshSettledAtomic(this, call, outcome) ==
  LET metricsResult == refreshMetricsData(call.metrics, outcome.metrics)
      seatsResult == refreshSeatsData(call.seats, outcome.seats)
      tried == IF outcome = Rejected \/ ~metricsResult.success \/ ~seatsResult.success
               THEN this
               ELSE applySeatsResult(applyMetricsResult(this, metricsResult), seatsResult)
      finally == [tried EXCEPT !.isLoading = FALSE]
  IN IF call.caller = "close"
     THEN [finally EXCEPT !.hasPendingTeamChanges = FALSE]
     ELSE finally

\* Variant of refreshSettled with a guard against superseded requests: the
\* responses are dropped while another refresh is awaited.
refreshSettledUnlessSuperseded(this, call, outcome) ==
  LET metricsResult == refreshMetricsData(call.metrics, outcome.metrics)
      seatsResult == refreshSeatsData(call.seats, outcome.seats)
      tried == IF outcome = Rejected \/ BagCardinality(inflight) > 1 THEN this
               ELSE applySeatsResult(applyMetricsResult(this, metricsResult), seatsResult)
      finally == [tried EXCEPT !.isLoading = FALSE]
  IN IF call.caller = "close"
     THEN [finally EXCEPT !.hasPendingTeamChanges = FALSE]
     ELSE finally

\* Variant of refreshSettled whose caller clears the pending flag only when
\* the metrics call succeeded.
refreshSettledPendingUntilSuccess(this, call, outcome) ==
  LET metricsResult == refreshMetricsData(call.metrics, outcome.metrics)
      seatsResult == refreshSeatsData(call.seats, outcome.seats)
      tried == IF outcome = Rejected THEN this
               ELSE applySeatsResult(applyMetricsResult(this, metricsResult), seatsResult)
      finally == [tried EXCEPT !.isLoading = FALSE]
  IN IF call.caller = "close" /\ outcome # Rejected /\ metricsResult.success
     THEN [finally EXCEPT !.hasPendingTeamChanges = FALSE]
     ELSE finally

\* Variant of refreshSettled that applies the seats result only when no
\* other refresh is awaited.
refreshSettledSeatsOfLast(this, call, outcome) ==
  LET metricsResult == refreshMetricsData(call.metrics, outcome.metrics)
      seatsResult == refreshSeatsData(call.seats, outcome.seats)
      applied == applyMetricsResult(this, metricsResult)
      tried == IF outcome = Rejected THEN this
               ELSE IF BagCardinality(inflight) > 1 THEN applied
               ELSE applySeatsResult(applied, seatsResult)
      finally == [tried EXCEPT !.isLoading = FALSE]
  IN IF call.caller = "close"
     THEN [finally EXCEPT !.hasPendingTeamChanges = FALSE]
     ELSE finally

\* refreshDataWithTeams after its await (try / catch / finally), followed by
\* the continuation of its caller, which runs before the next event.
refreshSettled(this, call, outcome) ==
  LET metricsResult == refreshMetricsData(call.metrics, outcome.metrics)
      seatsResult == refreshSeatsData(call.seats, outcome.seats)
      tried == IF outcome = Rejected THEN this
               ELSE applySeatsResult(applyMetricsResult(this, metricsResult), seatsResult)
      finally == [tried EXCEPT !.isLoading = FALSE]
  IN IF call.caller = "close"
     THEN [finally EXCEPT !.hasPendingTeamChanges = FALSE]
     ELSE finally

\* Variant of refreshCompletion that issues the requests again when a call
\* failed or Promise.all rejected.
refreshCompletionRetrying(this, call, outcome) ==
  [promise |-> "resolved",
   issued |-> IF outcome = Rejected \/ outcome.metrics # "ok" \/ outcome.seats # "ok"
              THEN SetToBag({call})
              ELSE EmptyBag]

\* What the caller of refreshTeamDataIfNeeded / resetAllFilters gets once the
\* refresh has settled: a rejection of Promise.all is thrown inside the try
\* block, the catch clause logs it and rethrows nothing, and no branch issues
\* a request again.
refreshCompletion(this, call, outcome) ==
  LET thrown == outcome = Rejected
      caught == thrown
  IN [promise |-> IF thrown /\ ~caught THEN "rejected" ELSE "resolved",
      issued |-> EmptyBag]

(***************************************************************************)
(* The state machine.                                                      *)
(***************************************************************************)
\* The values the filter widgets may pass; "zz" matches no item.
LanguageValues == {"go", "py", "zz"}
EditorValues == {"vim", "vsc", "zz"}
TeamValues == {"alpha", "zz"}

\* dashboardStore: the DashboardState object
Store ==
  [apiData |-> apiData, filteredData |-> filteredData, languages |-> languages,
   editors |-> editors, teams |-> teams, timeFrame |-> timeFrame,
   hideWeekends |-> hideWeekends, isLoading |-> isLoading, seatsData |-> seatsData,
   teamsData |-> teamsData, hasPendingTeamChanges |-> hasPendingTeamChanges,
   currentFilter |-> currentFilter]

\* the store after a method has run on it
Becomes(this) ==
  /\ apiData' = this.apiData
  /\ filteredData' = this.filteredData
  /\ languages' = this.languages
  /\ editors' = this.editors
  /\ teams' = this.teams
  /\ timeFrame' = this.timeFrame
  /\ hideWeekends' = this.hideWeekends
  /\ isLoading' = this.isLoading
  /\ seatsData' = this.seatsData
  /\ teamsData' = this.teamsData
  /\ hasPendingTeamChanges' = this.hasPendingTeamChanges
  /\ currentFilter' = this.currentFilter

\* no service function is called on its own
NoArgs == [fn |-> "none"]
NotCalled == [status |-> "not called"]

\* class DashboardState field initialisers
FreshStore ==
  /\ apiData = <<>>
  /\ filteredData = <<>>
  /\ languages = <<>>
  /\ editors = <<>>
  /\ teams = <<>>
  /\ timeFrame = "weekly"
  /\ hideWeekends = FALSE
  /\ isLoading = FALSE
  /\ seatsData = EmptySeats
  /\ teamsData = <<>>
  /\ hasPendingTeamChanges = FALSE
  /\ currentFilter = NoFilter
  /\ inflight = EmptyBag

Init == FreshStore /\ args = NoArgs /\ result = NotCalled

\* The filter widgets are children of DataProvider: they exist once it has
\* rendered, that is once initData has run.
Mounted == currentFilter # NoFilter

\* getAllCopilotSeatsTeams: the team list, or ERROR when the collaborator
\* answers with a non-success status, no response or an exception.
TeamsOutcomes == {"ok", "error"}

getAllCopilotSeatsTeams(filter, outcome) ==
  IF outcome # "ok"
  THEN [status |-> "ERROR"]
  ELSE [status |-> "OK", response |-> TeamStore]

\* Dashboard page + DataProvider: the page awaits the three fetches, returns
\* ErrorPage when one of them has a status other than OK, and otherwise
\* renders DataProvider, which seeds the store.
Renders(filter, metricsOutcome, seatsOutcome, teamsOutcome) ==
  LET metrics == getCopilotMetrics(
                   [startDate |-> filter.startDate, endDate |-> filter.endDate,
                    enterprise |-> filter.enterprise,
                    organization |-> filter.organization, team |-> <<>>],
                   metricsOutcome)
      seats == getCopilotSeatsManagement(
                 [enterprise |-> filter.enterprise,
                  organization |-> filter.organization, team |-> <<>>], seatsOutcome)
      teamList == getAllCopilotSeatsTeams(filter, teamsOutcome)
  IN /\ metrics.status = "OK"
     /\ seats.status = "OK"
     /\ teamList.status = "OK"
     /\ Becomes(initData(Store, metrics.response, seats.response,
                         teamList.response, filter))
     /\ UNCHANGED inflight

\* the page load as a step of the store
DataProvider(filter, metricsOutcome, seatsOutcome, teamsOutcome) ==
  /\ Renders(filter, metricsOutcome, seatsOutcome, teamsOutcome)
  /\ UNCHANGED <<args, result>>

\* Language DropdownFilter onSelect
SelectLanguage(v) ==
  Mounted /\ Becomes(filterLanguage(Store, v)) /\ UNCHANGED <<inflight, args, result>>

\* Editor DropdownFilter onSelect
SelectEditor(v) ==
  Mounted /\ Becomes(filterEditor(Store, v)) /\ UNCHANGED <<inflight, args, result>>

\* Team DropdownFilter onSelect
SelectTeam(v) ==
  Mounted /\ Becomes(filterTeam(Store, v)) /\ UNCHANGED <<inflight, args, result>>

HideWeekends(hide) ==
  Mounted /\ Becomes(toggleWeekendFilter(Store, hide)) /\ UNCHANGED <<inflight, args, result>>

ChangeTimeFrame(tf) ==
  Mounted /\ Becomes(onTimeFrameChange(Store, tf)) /\ UNCHANGED <<inflight, args, result>>

\* Team DropdownFilter onClose
Closes ==
  LET r == refreshTeamDataIfNeeded(Store)
  IN /\ Mounted
     /\ BagCardinality(inflight (+) r.issued) <= MaxInFlight
     /\ Becomes(r.store)
     /\ inflight' = inflight (+) r.issued

CloseTeams == Closes /\ UNCHANGED <<args, result>>

\* the eraser button's onClick
Resets ==
  LET r == resetAllFilters(Store)
  IN /\ Mounted
     /\ BagCardinality(inflight (+) r.issued) <= MaxInFlight
     /\ Becomes(r.store)
     /\ inflight' = inflight (+) r.issued

ClickReset == Resets /\ UNCHANGED <<args, result>>

\* Promise.all of one awaited refresh settles
Settle(call, outcome) ==
  /\ BagIn(call, inflight)
  /\ Becomes(refreshSettled(Store, call, outcome))
  /\ inflight' = (inflight (-) SetToBag({call}))
                    (+) refreshCompletion(Store, call, outcome).issued
  /\ UNCHANGED <<args, result>>

Next ==
  \/ \E filter \in Filters, mo \in MetricsOutcomes, so \in SeatsOutcomes,
          to \in TeamsOutcomes : DataProvider(filter, mo, so, to)
  \/ \E v \in LanguageValues : SelectLanguage(v)
  \/ \E v \in EditorValues : SelectEditor(v)
  \/ \E v \in TeamValues : SelectTeam(v)
  \/ \E hide \in BOOLEAN : HideWeekends(hide)
  \/ \E tf \in TimeFrames : ChangeTimeFrame(tf)
  \/ CloseTeams
  \/ ClickReset
  \/ \E call \in BagToSet(inflight), outcome \in RefreshOutcomes : Settle(call, outcome)

Spec == Init /\ [][Next]_vars

(***************************************************************************)
(* Fairness: the server answers every request, so an awaited Promise.all   *)
(* eventually settles.                                                     *)
(***************************************************************************)
FairSpec ==
  Spec /\ WF_vars(\E call \in BagToSet(inflight), outcome \in RefreshOutcomes :
                    Settle(call, outcome))

(***************************************************************************)
(* Vocabulary of the properties.                                           *)
(***************************************************************************)
\* what the server answers to the requests of the model
ServerFilter == Filter(1, 4)

MetricsRequest(teamList) ==
  [startDate |-> ServerFilter.startDate, endDate |-> ServerFilter.endDate,
   enterprise |-> ServerFilter.enterprise, organization |-> ServerFilter.organization,
   teams |-> teamList]

SeatsRequest(teamList) ==
  [date |-> ServerFilter.endDate, enterprise |-> ServerFilter.enterprise,
   organization |-> ServerFilter.organization, teams |-> teamList]

OrgMetrics == refreshMetricsData(MetricsRequest(<<>>), "ok").data
AlphaMetrics == refreshMetricsData(MetricsRequest(<<"alpha">>), "ok").data
OrgSeats == refreshSeatsData(SeatsRequest(<<>>), "ok").data
AlphaSeats == refreshSeatsData(SeatsRequest(<<"alpha">>), "ok").data

\* the store after the step
StoreNext ==
  [apiData |-> apiData', filteredData |-> filteredData', languages |-> languages',
   editors |-> editors', teams |-> teams', timeFrame |-> timeFrame',
   hideWeekends |-> hideWeekends', isLoading |-> isLoading', seatsData |-> seatsData',
   teamsData |-> teamsData', hasPendingTeamChanges |-> hasPendingTeamChanges',
   currentFilter |-> currentFilter']

\* filteredData of the store with no language and no editor selected
Unfiltered(this) ==
  applyFilters([this EXCEPT !.languages = ClearAll(@),
                            !.editors = ClearAll(@)]).filteredData

NoneSelected(this) ==
  /\ Selected(this.languages) = {}
  /\ Selected(this.editors) = {}
  /\ Selected(this.teams) = {}

\* a step that is the page (re-)rendering DataProvider
InitStep ==
  \E filter \in Filters, mo \in MetricsOutcomes, so \in SeatsOutcomes,
     to \in TeamsOutcomes : DataProvider(filter, mo, so, to)

\* a step in which call stops being awaited; only Settle removes a call
Settled(call) == CopiesIn(call, inflight') < CopiesIn(call, inflight)

\* a step in which the refresh awaited by caller settles
SettleStepOf(caller) ==
  \E call \in BagToSet(inflight) : call.caller = caller /\ Settled(call)

\* a step in which caller issues a refresh; only CloseTeams and ClickReset
\* add a call
IssueStepOf(caller) ==
  \E call \in BagToSet(inflight') :
    call.caller = caller /\ CopiesIn(call, inflight') > CopiesIn(call, inflight)

Idle == Mounted /\ inflight = EmptyBag /\ ~isLoading

(***************************************************************************)
(* C1: after initData, whatever the store held before, filteredData is the *)
(* full dataset bucketed by the current time frame: no row or breakdown    *)
(* entry is missing because of a language or editor selected before the    *)
(* call.  The code runs applyFilters while the old dropdown collections,   *)
(* with their selections, are still in place.                              *)
(***************************************************************************)
C1_InitYieldsUnfilteredData ==
  [][InitStep => filteredData' = Unfiltered(StoreNext)]_vars

(***************************************************************************)
(* C2: in every state between operations filteredData is the function of   *)
(* the current apiData, selected languages, selected editors, timeFrame    *)
(* and hideWeekends that applyFilters computes.                            *)
(***************************************************************************)
C2_FilteredDataIsDerived == filteredData = applyFilters(Store).filteredData

(***************************************************************************)
(* C3 (as written): when the refresh issued by resetAllFilters resolves,   *)
(* whatever its outcome, no language, editor or team is selected,          *)
(* hideWeekends is false, and filteredData is the full dataset bucketed    *)
(* by the current time frame.                                              *)
(***************************************************************************)
C3_ResetPostcondition ==
  [][SettleStepOf("reset") =>
       /\ NoneSelected(StoreNext)
       /\ filteredData' = Unfiltered(StoreNext)]_vars

\* the store resetAllFilters is meant to establish
Cleared(this) ==
  /\ NoneSelected(this)
  /\ ~this.hideWeekends
  /\ this.filteredData = Unfiltered(this)

(***************************************************************************)
(* C3 (amended): resetAllFilters itself leaves nothing selected,           *)
(* hideWeekends false and filteredData unfiltered, and the resolution of   *)
(* its refresh, whatever the outcome, keeps that state if nothing          *)
(* disturbed it while the refresh was in flight.                           *)
(***************************************************************************)
C3_ResetClearsAndSettleKeeps ==
  [][/\ IssueStepOf("reset") => Cleared(StoreNext)
     /\ (SettleStepOf("reset") /\ Cleared(Store)) => Cleared(StoreNext)]_vars

\* resetAllFilters has run on a store showing the records of team alpha
\* and its refresh is awaited
C3_ResetIssuedWitness ==
  /\ \E call \in BagToSet(inflight) : call.caller = "reset"
  /\ isLoading
  /\ Cleared(Store)
  /\ apiData = AlphaMetrics
  /\ seatsData = AlphaSeats

(***************************************************************************)
(* C4: toggling the same language, editor or team value twice, with        *)
(* nothing in between, restores filteredData and every isSelected flag.    *)
(***************************************************************************)
SameView(a, b) ==
  /\ a.filteredData = b.filteredData
  /\ a.languages = b.languages
  /\ a.editors = b.editors
  /\ a.teams = b.teams

C4_ToggleTwiceRestores ==
  Mounted =>
    /\ \A v \in LanguageValues :
         SameView(filterLanguage(filterLanguage(Store, v), v), Store)
    /\ \A v \in EditorValues :
         SameView(filterEditor(filterEditor(Store, v), v), Store)
    /\ \A v \in TeamValues :
         SameView(filterTeam(filterTeam(Store, v), v), Store)

(***************************************************************************)
(* C5: with no language and no editor selected, changing the time frame    *)
(* from t0 to any t1 and back to t0 yields the filteredData there was      *)
(* before, and apiData is untouched.                                       *)
(***************************************************************************)
C5_TimeFrameRoundTrip ==
  (Mounted /\ Selected(languages) = {} /\ Selected(editors) = {}) =>
    \A t1 \in TimeFrames :
      LET back == onTimeFrameChange(onTimeFrameChange(Store, t1), timeFrame)
      IN  /\ back.filteredData = filteredData
          /\ back.apiData = apiData

(***************************************************************************)
(* C6: from an idle store with no pending team change, filterTeam(v) on an *)
(* existing team followed by refreshTeamDataIfNeeded issues exactly one    *)
(* refresh, whose metrics request and seats request both carry exactly the *)
(* team values selected at that moment; isLoading is false before the      *)
(* call, true while the refresh is awaited and false once it has settled,  *)
(* whatever the outcome.                                                   *)
(***************************************************************************)
C6_ToggleThenCloseIssuesOneRefresh ==
  (Idle /\ ~hasPendingTeamChanges) =>
    \A v \in TeamValues :
      Has(teams, v) =>
        LET toggled == filterTeam(Store, v)
            r == refreshTeamDataIfNeeded(toggled)
        IN  /\ BagCardinality(r.issued) = 1
            /\ ~toggled.isLoading
            /\ r.store.isLoading
            /\ \A call \in BagToSet(r.issued) :
                 /\ Range(call.metrics.teams) = Selected(toggled.teams)
                 /\ Len(call.metrics.teams) = Cardinality(Selected(toggled.teams))
                 /\ call.seats.teams = call.metrics.teams
                 /\ \A outcome \in RefreshOutcomes :
                      ~refreshSettled(r.store, call, outcome).isLoading

\* team alpha was toggled on and the dropdown closed: its one refresh, for
\* team alpha, is awaited
C6_CloseIssuedWitness ==
  /\ Selected(teams) = {"alpha"}
  /\ isLoading
  /\ BagCardinality(inflight) = 1
  /\ \E call \in BagToSet(inflight) :
       /\ call.caller = "close"
       /\ call.metrics.teams = <<"alpha">>
       /\ call.seats.teams = <<"alpha">>

(***************************************************************************)
(* C7: a refresh that was started is eventually followed by isLoading      *)
(* being false, whether both calls succeed, one fails, both fail or        *)
(* Promise.all rejects; and whenever no refresh is awaited, isLoading is    *)
(* false.                                                                  *)
(***************************************************************************)
C7_LoadingEventuallyCleared ==
  /\ isLoading ~> ~isLoading
  /\ [](inflight = EmptyBag => ~isLoading)

\* a refresh for team alpha has been processed and nothing is awaited
C7_RefreshCompletedWitness ==
  /\ inflight = EmptyBag
  /\ ~isLoading
  /\ apiData = AlphaMetrics
  /\ seatsData = AlphaSeats
  /\ Selected(teams) = {"alpha"}

(***************************************************************************)
(* C8: when a refresh settles with the metrics call failed and the seats   *)
(* call succeeded, apiData, languages, editors, teams and filteredData     *)
(* keep their values and seatsData becomes the seat summary just fetched.  *)
(***************************************************************************)
C8_MetricsFailureKeepsMetricsHalf ==
  [][\A call \in BagToSet(inflight) :
       (Settled(call) /\ Settle(call, [metrics |-> "error", seats |-> "ok"])) =>
         /\ apiData' = apiData
         /\ languages' = languages
         /\ editors' = editors
         /\ teams' = teams
         /\ filteredData' = filteredData
         /\ seatsData' = refreshSeatsData(call.seats, "ok").data]_vars

\* the refresh for team alpha lost its metrics half: the records are still
\* those of the organization, the seats are those of the team
C8_SeatsOnlyAppliedWitness ==
  /\ inflight = EmptyBag
  /\ Selected(teams) = {"alpha"}
  /\ ~hasPendingTeamChanges
  /\ apiData = OrgMetrics
  /\ seatsData = AlphaSeats

(***************************************************************************)
(* C9: when a refresh settles with the seat fetch failed (the seat API or  *)
(* store answered with an error, or the configuration check failed) and    *)
(* the metrics call succeeded, seatsData keeps its value and apiData       *)
(* becomes the records just fetched.  getCopilotSeatsManagement answers a  *)
(* failed fetch with status OK and an empty object, which is then stored.  *)
(***************************************************************************)
C9_SeatsFailureKeepsSeats ==
  [][\A call \in BagToSet(inflight), so \in SeatsOutcomes \ {"ok"} :
       (Settled(call) /\ Settle(call, [metrics |-> "ok", seats |-> so])) =>
         /\ seatsData' = seatsData
         /\ apiData' = refreshMetricsData(call.metrics, "ok").data]_vars

Values(items) == {items[i].value : i \in DOMAIN items}

\* a step in which the awaited call settles with its metrics call succeeded
MetricsSuccessStep(call) ==
  /\ Settled(call)
  /\ \E so \in SeatsOutcomes : Settle(call, [metrics |-> "ok", seats |-> so])

(***************************************************************************)
(* C11: when a refresh settles with its metrics call succeeded, the teams  *)
(* collection has the same values as before and every team value has the   *)
(* isSelected it had just before the response was processed.               *)
(***************************************************************************)
C11_TeamSelectionKeptByValue ==
  [][\A call \in BagToSet(inflight) :
       MetricsSuccessStep(call) =>
         /\ Values(teams') = Values(teams)
         /\ \A i \in DOMAIN teams', j \in DOMAIN teams :
              teams'[i].value = teams[j].value =>
                teams'[i].isSelected = teams[j].isSelected]_vars

\* the records of team alpha have arrived and team alpha is still selected
C11_TeamStillSelectedWitness ==
  /\ apiData = AlphaMetrics
  /\ Selected(teams) = {"alpha"}
  /\ ~hasPendingTeamChanges
  /\ ~isLoading

(***************************************************************************)
(* C12: when a refresh settles with its metrics call succeeded, every      *)
(* language and every editor that was selected before and still occurs in  *)
(* the new data is still selected, and timeFrame and hideWeekends are       *)
(* unchanged.  The code rebuilds both collections with isSelected false.   *)
(***************************************************************************)
C12_RefreshKeepsSelections ==
  [][\A call \in BagToSet(inflight) :
       MetricsSuccessStep(call) =>
         /\ Selected(languages) \cap Values(languages') \subseteq Selected(languages')
         /\ Selected(editors) \cap Values(editors') \subseteq Selected(editors')
         /\ timeFrame' = timeFrame
         /\ hideWeekends' = hideWeekends]_vars

(***************************************************************************)
(* The seat aggregator on its own: aggregateSeatsData is called on a list  *)
(* of seat documents and a team filter, then on the one-element list       *)
(* holding the summary it returned.                                        *)
(***************************************************************************)
MaxDocs == 2
MaxSeatsPerDoc == 2

SeqsUpTo(S, n) == UNION {[1 .. k -> S] : k \in 0 .. n}

\* seats a document may hold: login a under two teams (active, inactive),
\* login b under a team (never active) and without team (active)
SeatPool ==
  {Seat("a", "alpha", 0), Seat("a", "beta", 40),
   Seat("b", "alpha", NullDate), Seat("b", "", 0)}

SeatDoc(seats) ==
  [organization |-> "org", seats |-> seats, total_seats |-> Len(seats),
   total_active_seats |-> CountActive(seats), page |-> 1, has_next_page |-> FALSE]

SeatDocs == {SeatDoc(seats) : seats \in SeqsUpTo(SeatPool, MaxSeatsPerDoc)}

TeamFilterInputs == {<<>>, <<"alpha">>, <<"alpha", "beta">>}

storeVars == <<apiData, filteredData, languages, editors, teams, timeFrame,
               hideWeekends, isLoading, seatsData, teamsData,
               hasPendingTeamChanges, currentFilter, inflight>>

AggInit ==
  /\ FreshStore
  /\ args \in {[fn |-> "aggregateSeatsData", data |-> data,
                teamFilter |-> teamFilter, round |-> 0] :
                 data \in SeqsUpTo(SeatDocs, MaxDocs), teamFilter \in TeamFilterInputs}
  /\ result = NotCalled

\* getCopilotSeatsFromApi / getCopilotSeatsFromDatabase: aggregateSeatsData on
\* the documents read
AggregateDocuments ==
  /\ args.fn = "aggregateSeatsData"
  /\ result = NotCalled
  /\ result' = aggregateSeatsData(args.data, args.teamFilter)
  /\ UNCHANGED <<storeVars, args>>

\* aggregateSeatsData on the list holding the summary just returned
AggregateSummary ==
  /\ args.fn = "aggregateSeatsData"
  /\ result # NotCalled
  /\ args.round = 0
  /\ args' = [args EXCEPT !.data = <<result>>, !.round = 1]
  /\ result' = aggregateSeatsData(<<result>>, args.teamFilter)
  /\ UNCHANGED storeVars

AggNext == AggregateDocuments \/ AggregateSummary

AggSpec == AggInit /\ [][AggNext]_vars

\* aggregateSeatsData has returned
Aggregated == args.fn = "aggregateSeatsData" /\ result # NotCalled

\* the seats of a list active within the trailing window
ActiveIn(seats) ==
  {i \in DOMAIN seats : /\ seats[i].last_activity_at # NullDate
                        /\ seats[i].last_activity_at <= ActiveWindowDays}

(***************************************************************************)
(* C13: for every list of seat documents and every team filter the summary *)
(* has total_active_seats <= total_seats.                                  *)
(***************************************************************************)
C13_ActiveAtMostTotal ==
  Aggregated => result.total_active_seats <= result.total_seats

\* two documents holding the active seat of login a twice and the inactive
\* seat of login b: one of two seats is active
C13_ActiveBelowTotalWitness ==
  /\ Aggregated
  /\ args.round = 0
  /\ Len(args.data) = 2
  /\ \E i, j \in DOMAIN Flatten(args.data) :
       i # j /\ Flatten(args.data)[i] = Flatten(args.data)[j]
             /\ i \in ActiveIn(Flatten(args.data))
  /\ result.total_seats = 2
  /\ result.total_active_seats = 1

(***************************************************************************)
(* C14: aggregating the one-element list that holds a summary returns the  *)
(* same seats in the same order, the same total_seats and the same         *)
(* total_active_seats.                                                     *)
(***************************************************************************)
C14_AggregationIdempotent ==
  [][AggregateSummary =>
       /\ result'.seats = result.seats
       /\ result'.total_seats = result.total_seats
       /\ result'.total_active_seats = result.total_active_seats]_vars

\* a summary of two seats, made under a team filter, has been aggregated again
C14_AggregatedTwiceWitness ==
  /\ Aggregated
  /\ args.round = 1
  /\ args.teamFilter # <<>>
  /\ Len(result.seats) = 2
  /\ result.seats[1] # result.seats[2]

\* the position of the first seat of a login in a list
FirstOf(seats, login) ==
  CHOOSE i \in DOMAIN seats :
    /\ seats[i].login = login
    /\ \A j \in DOMAIN seats : seats[j].login = login => i <= j

Logins(seats) == {seats[i].login : i \in DOMAIN seats}

(***************************************************************************)
(* C15: for two or more documents and no team filter the summary's seats   *)
(* are the flattened seats with each login kept once, at its first         *)
(* occurrence and in the order of the first occurrences; total_seats is    *)
(* the number of distinct logins and total_active_seats the number of kept *)
(* seats active within the trailing 30 days (no last activity: not         *)
(* active).                                                                *)
(***************************************************************************)
C15_FirstOccurrenceKept ==
  (Aggregated /\ args.round = 0 /\ Len(args.data) >= 2 /\ args.teamFilter = <<>>) =>
    LET all == Flatten(args.data)
        kept == result.seats
    IN  /\ \A i, j \in DOMAIN kept : i # j => kept[i].login # kept[j].login
        /\ Logins(kept) = Logins(all)
        /\ \A i \in DOMAIN kept : kept[i] = all[FirstOf(all, kept[i].login)]
        /\ \A i, j \in DOMAIN kept :
             i < j => FirstOf(all, kept[i].login) < FirstOf(all, kept[j].login)
        /\ result.total_seats = Cardinality(Logins(all))
        /\ result.total_active_seats = Cardinality(ActiveIn(kept))

\* login a occurs first as an active seat of team alpha and again as an
\* inactive seat of team beta, after a seat of login b without activity:
\* seats [a, b], two seats, one active
C15_DuplicateLoginWitness ==
  /\ Aggregated
  /\ args.round = 0
  /\ args.teamFilter = <<>>
  /\ Len(args.data) = 2
  /\ Flatten(args.data) =
       <<Seat("a", "alpha", 0), Seat("b", "alpha", NullDate), Seat("a", "beta", 40)>>
  /\ result.seats = <<Seat("a", "alpha", 0), Seat("b", "alpha", NullDate)>>
  /\ result.total_seats = 2
  /\ result.total_active_seats = 1

\* seats whose assigning team is named in the filter
InTeams(seats, teamFilter) ==
  SelectSeq(seats, LAMBDA seat : seat.assigning_team \in Range(teamFilter) \ {""})

(***************************************************************************)
(* C16: with a non-empty team filter and two or more documents the         *)
(* summary's seats are the flattened seats first deduplicated by login     *)
(* (first occurrence wins) and then restricted to the teams of the filter: *)
(* a login whose first occurrence is assigned by a team outside the filter *)
(* does not appear.  The code filters by team first and deduplicates what  *)
(* is left.                                                                *)
(***************************************************************************)
C16_DeduplicateThenFilter ==
  (Aggregated /\ args.round = 0 /\ Len(args.data) >= 2 /\ args.teamFilter # <<>>) =>
    result.seats = InTeams(UniqueByLogin(<<>>, Flatten(args.data)), args.teamFilter)

(***************************************************************************)
(* C17: for every input the summary has total_seats equal to the length of *)
(* its seats and total_active_seats equal to the number of those seats     *)
(* active within the trailing 30 days; no document yields 0, 0 and no      *)
(* seats.                                                                  *)
(***************************************************************************)
C17_TotalsRecomputed ==
  Aggregated =>
    /\ result.total_seats = Len(result.seats)
    /\ result.total_active_seats = Cardinality(ActiveIn(result.seats))
    /\ (args.round = 0 /\ args.data = <<>>) =>
         /\ result.total_seats = 0
         /\ result.total_active_seats = 0
         /\ result.seats = <<>>

\* a single document of two seats of which the team filter keeps one
C17_SingleDocumentFilteredWitness ==
  /\ Aggregated
  /\ args.round = 0
  /\ Len(args.data) = 1
  /\ args.teamFilter = <<"alpha">>
  /\ args.data[1].total_seats = 2
  /\ args.data[1].total_active_seats = 2
  /\ result.total_seats = 1
  /\ result.total_active_seats = 1

(***************************************************************************)
(* The metrics fetcher on its own: getCopilotMetrics against an API whose  *)
(* endpoints answer or fail one by one and serve their rows in pages.      *)
(***************************************************************************)
MaxTeams == 2
MaxPerPage == 3

TeamLists == SeqsUpTo({"alpha", "beta"}, MaxTeams)

FetchInit ==
  /\ FreshStore
  /\ args \in {[fn |-> "getCopilotMetrics", filter |-> filter, team |-> team,
                ok |-> ok, perPage |-> perPage] :
                 filter \in Filters, team \in TeamLists,
                 ok \in [Entities -> BOOLEAN], perPage \in 1 .. MaxPerPage}
  /\ result = NotCalled

\* getCopilotMetrics with the API configured (no database)
FetchMetrics ==
  /\ args.fn = "getCopilotMetrics"
  /\ result = NotCalled
  /\ result' =
       getCopilotMetricsFromApi(
         [startDate |-> args.filter.startDate, endDate |-> args.filter.endDate,
          enterprise |-> args.filter.enterprise,
          organization |-> args.filter.organization, team |-> args.team],
         ApiServing(args.filter, args.ok, args.perPage))
  /\ UNCHANGED <<storeVars, args>>

FetchNext == FetchMetrics

FetchSpec == FetchInit /\ [][FetchNext]_vars

\* getCopilotMetrics has returned
Fetched == args.fn = "getCopilotMetrics" /\ result # NotCalled

(***************************************************************************)
(* C18: a fetch for one or more teams in which at least one per-team       *)
(* request is answered with a non-success result returns an error result   *)
(* that holds no usage record: the teams that succeeded are not merged.    *)
(***************************************************************************)
C18_TeamFailureFailsAll ==
  (Fetched /\ args.team # <<>> /\ \E i \in DOMAIN args.team : ~args.ok[args.team[i]]) =>
    /\ result.status = "ERROR"
    /\ "response" \notin DOMAIN result

\* teams alpha and beta requested, alpha answers and beta fails
C18_SecondTeamFailsWitness ==
  /\ Fetched
  /\ args.team = <<"alpha", "beta">>
  /\ args.ok["alpha"]
  /\ ~args.ok["beta"]
  /\ result.status = "ERROR"

\* the number of times x occurs in a sequence
Occurrences(x, seq) == Cardinality({i \in DOMAIN seq : seq[i] = x})

RECURSIVE Returned(_, _)
\* the records the per-team requests returned, team after team
Returned(api, teamList) ==
  IF teamList = <<>> THEN <<>>
  ELSE fetchCopilotMetrics(api[Head(teamList)], Head(teamList)).response
         \o Returned(api, Tail(teamList))

(***************************************************************************)
(* C19: a fetch for one or more teams in which every per-team request      *)
(* succeeds returns every record the requests returned, each as many times *)
(* as it was returned and no other, in ascending order of day.             *)
(***************************************************************************)
C19_TeamRecordsConcatenatedSorted ==
  (Fetched /\ args.team # <<>> /\ \A i \in DOMAIN args.team : args.ok[args.team[i]]) =>
    LET returned == Returned(ApiServing(args.filter, args.ok, args.perPage), args.team)
    IN  /\ result.status = "OK"
        /\ Len(result.response) = Len(returned)
        /\ \A x \in Range(returned) \cup Range(result.response) :
             Occurrences(x, result.response) = Occurrences(x, returned)
        /\ \A i, j \in DOMAIN result.response :
             i < j => result.response[i].day <= result.response[j].day

\* teams beta and alpha both answer with two records, one of them equal in
\* both: four records, that one twice, days ascending
C19_TwoTeamsMergedWitness ==
  /\ Fetched
  /\ args.team = <<"beta", "alpha">>
  /\ args.perPage = MaxPerPage
  /\ result.status = "OK"
  /\ Len(result.response) = 4
  /\ result.response[1] = result.response[2]
  /\ result.response[3].day < result.response[4].day

(***************************************************************************)
(* C20: a fetch without team follows the link header: the records returned *)
(* are those of every page of the chain of rel="next" links.  The code     *)
(* issues one GET and returns the body of that response.                   *)
(***************************************************************************)
C20_EveryPageReturned ==
  (Fetched /\ args.team = <<>> /\ args.ok[""]) =>
    /\ result.status = "OK"
    /\ result.response = applyTimeFrameLabel(RowsOf(args.filter, ""))

(***************************************************************************)
(* C21: a page load in which the metrics fetch, the seat fetch or the team *)
(* list fetch failed at its collaborator never initialises the store: the  *)
(* page returns the error page instead of rendering DataProvider.          *)
(* getCopilotSeatsManagement answers a failed seat fetch with status OK    *)
(* and an empty object, so the page renders and initData stores it.        *)
(***************************************************************************)
C21_FailedLoadNeverInitializes ==
  [][\A filter \in Filters, mo \in MetricsOutcomes, so \in SeatsOutcomes,
        to \in TeamsOutcomes :
       (mo # "ok" \/ so # "ok" \/ to # "ok") =>
         ~DataProvider(filter, mo, so, to)]_vars

C23_UnknownValueIsNoOp ==
  Mounted =>
    /\ \A v \in LanguageValues :
         ~Has(languages, v) => filterLanguage(Store, v) = Store
    /\ \A v \in EditorValues :
         ~Has(editors, v) => filterEditor(Store, v) = Store
    /\ \A v \in TeamValues :
         ~Has(teams, v) => filterTeam(Store, v) = Store

\* a store whose filteredData is not what a recomputation would give, with
\* no pending team change, and values that match no item of each collection
C23_UnknownValueWitness ==
  /\ Mounted
  /\ filteredData # applyFilters(Store).filteredData
  /\ ~hasPendingTeamChanges
  /\ \E v \in LanguageValues : ~Has(languages, v)
  /\ \E v \in EditorValues : ~Has(editors, v)
  /\ \E v \in TeamValues : ~Has(teams, v)

\* items differ from previous in the isSelected flag of the first item of
\* value v and in nothing else
FlippedOnly(items, previous, v) ==
  /\ DOMAIN items = DOMAIN previous
  /\ \A i \in DOMAIN items :
       /\ items[i].value = previous[i].value
       /\ items[i].isSelected =
            IF i = Find(previous, v) THEN ~previous[i].isSelected
            ELSE previous[i].isSelected

(***************************************************************************)
(* C24: filterTeam(v) on an existing team flips the isSelected flag of     *)
(* that item and of no other, sets hasPendingTeamChanges, issues no        *)
(* request and leaves filteredData, like every other field, as it was.     *)
(* filterTeam calls applyFilters, which recomputes filteredData from the   *)
(* current selections: after an initData that left filteredData filtered   *)
(* by selections it then dropped (C1), the recomputation changes it.       *)
(***************************************************************************)
C24_ToggleTeamFrame ==
  [][\A v \in TeamValues :
       (Has(teams, v) /\ teams' = Toggle(teams, v) /\ SelectTeam(v)) =>
         /\ FlippedOnly(teams', teams, v)
         /\ hasPendingTeamChanges'
         /\ inflight' = inflight
         /\ filteredData' = filteredData
         /\ <<apiData, languages, editors, timeFrame, hideWeekends, isLoading,
              seatsData, teamsData, currentFilter>>' =
            <<apiData, languages, editors, timeFrame, hideWeekends, isLoading,
              seatsData, teamsData, currentFilter>>]_vars

(***************************************************************************)
(* C25: refreshTeamDataIfNeeded called while hasPendingTeamChanges is      *)
(* false issues no request, does not set isLoading and leaves every field  *)
(* of the store as it was.                                                 *)
(***************************************************************************)
C25_CloseWithoutPendingIsNoOp ==
  (Mounted /\ ~hasPendingTeamChanges) =>
    LET r == refreshTeamDataIfNeeded(Store)
    IN  /\ r.issued = EmptyBag
        /\ r.store = Store

\* nothing is pending and nothing awaited, although team alpha is selected
\* and the store shows the data of the whole organization
C25_NothingPendingWitness ==
  /\ Mounted
  /\ ~hasPendingTeamChanges
  /\ ~isLoading
  /\ inflight = EmptyBag
  /\ Selected(teams) = {"alpha"}
  /\ apiData = OrgMetrics
  /\ seatsData = OrgSeats

(***************************************************************************)
(* C26: in every state, whatever is selected, pending or awaited,          *)
(* resetAllFilters issues one refresh whose metrics request and seats      *)
(* request carry no team, having cleared every isSelected flag,            *)
(* hideWeekends and hasPendingTeamChanges.                                 *)
(***************************************************************************)
C26_ResetAlwaysRefreshesWithNoTeam ==
  Mounted =>
    LET r == resetAllFilters(Store)
    IN  /\ BagCardinality(r.issued) = 1
        /\ \A call \in BagToSet(r.issued) :
             /\ call.caller = "reset"
             /\ call.metrics.teams = <<>>
             /\ call.seats.teams = <<>>
        /\ NoneSelected(r.store)
        /\ ~r.store.hideWeekends
        /\ ~r.store.hasPendingTeamChanges
        /\ r.store.isLoading

\* resetAllFilters ran while the refresh for team alpha was awaited: both
\* refreshes are awaited, nothing is selected and nothing pending
C26_ResetDuringRefreshWitness ==
  /\ BagCardinality(inflight) = 2
  /\ \E call \in BagToSet(inflight) :
       call.caller = "close" /\ call.metrics.teams = <<"alpha">>
  /\ \E call \in BagToSet(inflight) :
       /\ call.caller = "reset"
       /\ call.metrics.teams = <<>>
       /\ call.seats.teams = <<>>
  /\ NoneSelected(Store)
  /\ ~hideWeekends
  /\ ~hasPendingTeamChanges
  /\ isLoading

\* breakdown entry b passes the language and editor selections of the store
Survives(this, b) ==
  /\ Selected(this.languages) = {} \/ b.language \in Selected(this.languages)
  /\ Selected(this.editors) = {} \/ b.editor \in Selected(this.editors)

\* rows hold, bucket by bucket, exactly the breakdown entries of the store's
\* bucketed records that pass its selections, and no row without entries
FilteredAsSelected(this, rows) ==
  LET bucketed == aggregatedDataByTimeFrame(this, this.hideWeekends)
  IN  /\ \A i \in DOMAIN rows : rows[i].breakdown # <<>>
      /\ \A k \in DOMAIN bucketed :
           \A j \in DOMAIN bucketed[k].breakdown :
             LET b == bucketed[k].breakdown[j]
             IN  (\E i \in DOMAIN rows :
                    /\ rows[i].time_frame_display = bucketed[k].time_frame_display
                    /\ b \in Range(rows[i].breakdown))
                 <=> Survives(this, b)

(***************************************************************************)
(* C27: a breakdown entry of the bucketed records is in filteredData       *)
(* exactly if no language is selected or its language is selected, and no  *)
(* editor is selected or its editor is selected; every row of filteredData *)
(* has a breakdown that is not empty.  After an initData that ran          *)
(* applyFilters on the selections it then dropped (C1), filteredData lacks *)
(* entries although nothing is selected.                                   *)
(***************************************************************************)
C27_FilteredBySelection == Mounted => FilteredAsSelected(Store, filteredData)

(***************************************************************************)
(* C28: isLoading is true exactly while at least one refresh is awaited;   *)
(* with two overlapping refreshes it stays true until the last of them     *)
(* has settled.  The finally clause of refreshDataWithTeams clears the     *)
(* flag whenever any refresh settles.                                      *)
(***************************************************************************)
C28_LoadingIffRefreshAwaited == isLoading <=> inflight # EmptyBag

(***************************************************************************)
(* The store together with the arguments of the most recently issued       *)
(* refresh: args records the team list passed to the last call of          *)
(* refreshDataWithTeams since initData, the empty list if there was none.  *)
(***************************************************************************)
LastIssued(selectedTeams) == [fn |-> "refreshDataWithTeams", teams |-> selectedTeams]

\* the record kept after an operation that issued the calls in issued
Recorded(issued) ==
  IF issued = EmptyBag THEN args
  ELSE LastIssued((CHOOSE call \in BagToSet(issued) : TRUE).metrics.teams)

TrackedInit == FreshStore /\ args = LastIssued(<<>>) /\ result = NotCalled

TrackedDataProvider(filter, metricsOutcome, seatsOutcome, teamsOutcome) ==
  /\ Renders(filter, metricsOutcome, seatsOutcome, teamsOutcome)
  /\ args' = LastIssued(<<>>)
  /\ UNCHANGED result

TrackedCloseTeams ==
  /\ Closes
  /\ args' = Recorded(refreshTeamDataIfNeeded(Store).issued)
  /\ UNCHANGED result

TrackedClickReset ==
  /\ Resets
  /\ args' = Recorded(resetAllFilters(Store).issued)
  /\ UNCHANGED result

TrackedNext ==
  \/ \E filter \in Filters, mo \in MetricsOutcomes, so \in SeatsOutcomes,
          to \in TeamsOutcomes : TrackedDataProvider(filter, mo, so, to)
  \/ \E v \in LanguageValues : SelectLanguage(v)
  \/ \E v \in EditorValues : SelectEditor(v)
  \/ \E v \in TeamValues : SelectTeam(v)
  \/ \E hide \in BOOLEAN : HideWeekends(hide)
  \/ \E tf \in TimeFrames : ChangeTimeFrame(tf)
  \/ TrackedCloseTeams
  \/ TrackedClickReset
  \/ \E call \in BagToSet(inflight), outcome \in RefreshOutcomes : Settle(call, outcome)

TrackedSpec == TrackedInit /\ [][TrackedNext]_vars

(***************************************************************************)
(* C29: whenever no refresh is awaited, if the selected teams are not the  *)
(* teams carried by the most recently issued refresh (none, if no refresh  *)
(* was issued since initData), hasPendingTeamChanges is set, so that the   *)
(* next refreshTeamDataIfNeeded sends them.  refreshTeamDataIfNeeded       *)
(* clears the flag after its await, which also discards a filterTeam made  *)
(* while the refresh was awaited.                                          *)
(***************************************************************************)
C29_UnsentTeamChangeIsPending ==
  (Mounted /\ inflight = EmptyBag /\ Selected(teams) # Range(args.teams)) =>
    hasPendingTeamChanges

(***************************************************************************)
(* C30 (as written): refreshTeamDataIfNeeded invoked twice with nothing in between,     *)
(* the second time before the refresh of the first has resolved, issues    *)
(* no request the second time.  hasPendingTeamChanges is cleared only      *)
(* after the await, so the second invocation still finds it set.           *)
(***************************************************************************)
C30_SecondCloseIssuesNothing ==
  Mounted =>
    LET first == refreshTeamDataIfNeeded(Store)
        second == refreshTeamDataIfNeeded(first.store)
    IN  second.issued = EmptyBag

(***************************************************************************)
(* C30 (amended): a second refreshTeamDataIfNeeded with nothing in between *)
(* issues no request once the refresh of the first has resolved, whatever  *)
(* its outcome, or if the first issued none; invoked before the first      *)
(* refresh has resolved, it issues the same metrics and seats requests     *)
(* once more.                                                              *)
(***************************************************************************)
C30_SecondCloseRepeatsUntilResolved ==
  Mounted =>
    LET first == refreshTeamDataIfNeeded(Store)
        second == refreshTeamDataIfNeeded(first.store)
    IN  /\ second.issued = first.issued
        /\ \A call \in BagToSet(first.issued), outcome \in RefreshOutcomes :
             refreshTeamDataIfNeeded(
               refreshSettled(first.store, call, outcome)).issued = EmptyBag

\* the team dropdown was closed twice before the first refresh resolved:
\* the same refresh for team alpha is awaited twice
C30_SameRefreshTwiceWitness ==
  \E call \in BagToSet(inflight) :
    /\ call.caller = "close"
    /\ call.metrics.teams = <<"alpha">>
    /\ CopiesIn(call, inflight) = 2

(***************************************************************************)
(* C31: when the refresh issued by refreshTeamDataIfNeeded resolves,       *)
(* whether both calls succeeded, one failed, both failed or Promise.all    *)
(* rejected, hasPendingTeamChanges is false, and a further                 *)
(* refreshTeamDataIfNeeded issues no request, even if apiData was not      *)
(* replaced by the records of the selected teams.                          *)
(***************************************************************************)
C31_PendingClearedWhateverOutcome ==
  [][SettleStepOf("close") =>
       /\ ~hasPendingTeamChanges'
       /\ refreshTeamDataIfNeeded(StoreNext).issued = EmptyBag]_vars

\* the refresh for team alpha failed: alpha is selected, the records are
\* still those of the organization, nothing is pending and closing the
\* dropdown again would issue nothing
C31_FailedRefreshNotRetriedWitness ==
  /\ Mounted
  /\ inflight = EmptyBag
  /\ Selected(teams) = {"alpha"}
  /\ apiData = OrgMetrics
  /\ ~hasPendingTeamChanges
  /\ refreshTeamDataIfNeeded(Store).issued = EmptyBag

\* apiData and seatsData are the answers to the two requests of call
FromCall(this, call) ==
  /\ this.apiData = refreshMetricsData(call.metrics, "ok").data
  /\ this.seatsData = refreshSeatsData(call.seats, "ok").data

(***************************************************************************)
(* C32: when a refresh settles with both calls succeeded, the metrics      *)
(* result and the seats result are applied in that one step, whether or    *)
(* not other refreshes are awaited: afterwards apiData and seatsData are   *)
(* both the answers to the requests of that invocation.  Hence when the    *)
(* last of several overlapping successful refreshes has settled, apiData   *)
(* and seatsData come from the same invocation.                            *)
(***************************************************************************)
C32_BothHalvesFromOneInvocation ==
  [][\A call \in BagToSet(inflight) :
       (Settled(call) /\ Settle(call, [metrics |-> "ok", seats |-> "ok"])) =>
         FromCall(StoreNext, call)]_vars

\* a reset issued while the refresh for team alpha was awaited has settled
\* first: the refresh for team alpha is still awaited, isLoading is false,
\* and both the records and the seats are those of the organization
C32_OverlapSettledWitness ==
  /\ BagCardinality(inflight) = 1
  /\ \E call \in BagToSet(inflight) :
       call.caller = "close" /\ call.metrics.teams = <<"alpha">>
  /\ ~isLoading
  /\ Selected(teams) = {}
  /\ ~hasPendingTeamChanges
  /\ apiData = OrgMetrics
  /\ seatsData = OrgSeats

(***************************************************************************)
(* The store when the page is loaded with different date ranges: the page  *)
(* loads, the team dropdown, the reset button and the settling refreshes.  *)
(***************************************************************************)
ScopedFilters == {Filter(1, 4), Filter(2, 4)}

ScopedNext ==
  \/ \E filter \in ScopedFilters, mo \in MetricsOutcomes, so \in SeatsOutcomes,
          to \in TeamsOutcomes : DataProvider(filter, mo, so, to)
  \/ \E v \in TeamValues : SelectTeam(v)
  \/ CloseTeams
  \/ ClickReset
  \/ \E call \in BagToSet(inflight), outcome \in RefreshOutcomes : Settle(call, outcome)

ScopedSpec == Init /\ [][ScopedNext]_vars

\* a step in which the page renders DataProvider with filter
LoadStep(filter) ==
  \E mo \in MetricsOutcomes, so \in SeatsOutcomes, to \in TeamsOutcomes :
    DataProvider(filter, mo, so, to)

(***************************************************************************)
(* C33: a refresh issues one metrics request and one seats request, both   *)
(* with the same team list; the metrics request carries the date range and *)
(* scope of the filter stored by the most recent initData, the seats       *)
(* request the end date and scope of that filter.                          *)
(***************************************************************************)
C33_RequestsCarryStoredFilter ==
  /\ [](Mounted =>
          /\ BagCardinality(resetAllFilters(Store).issued) = 1
          /\ hasPendingTeamChanges =>
               BagCardinality(refreshTeamDataIfNeeded(Store).issued) = 1)
  /\ [][/\ \A filter \in ScopedFilters : LoadStep(filter) => currentFilter' = filter
        /\ currentFilter' # currentFilter => \E filter \in ScopedFilters : LoadStep(filter)
        /\ BagCardinality(inflight') <= BagCardinality(inflight) + 1
        /\ \A call \in BagToSet(inflight') :
             CopiesIn(call, inflight') > CopiesIn(call, inflight) =>
               /\ call.metrics =
                    [startDate |-> currentFilter.startDate,
                     endDate |-> currentFilter.endDate,
                     enterprise |-> currentFilter.enterprise,
                     organization |-> currentFilter.organization,
                     teams |-> call.metrics.teams]
               /\ call.seats =
                    [date |-> currentFilter.endDate,
                     enterprise |-> currentFilter.enterprise,
                     organization |-> currentFilter.organization,
                     teams |-> call.metrics.teams]]_vars

\* a refresh issued after the page was loaded for days 1 to 4 is still
\* awaited when a refresh is issued after a load for days 2 to 4: each
\* carries the range stored when it was issued
C33_TwoRangesAwaitedWitness ==
  /\ currentFilter = Filter(2, 4)
  /\ \E call \in BagToSet(inflight) :
       call.metrics.startDate = 1 /\ call.seats.date = 4
  /\ \E call \in BagToSet(inflight) :
       call.metrics.startDate = 2 /\ call.seats.date = 4

\* items holds no value twice and is in ascending order of value
StrictlyAscending(items) ==
  \A i, j \in DOMAIN items : i < j => Rank(items[i].value) < Rank(items[j].value)

(***************************************************************************)
(* C34: in every reachable state languages holds one item per language     *)
(* occurring in the breakdowns of apiData, editors one item per editor     *)
(* occurring there, and teams one item per non-empty team name of          *)
(* teamsData; no collection holds a value twice and each is sorted         *)
(* ascending by value.                                                     *)
(***************************************************************************)
C34_DropdownsMirrorData ==
  LET all == BreakdownsOf(apiData)
  IN  /\ Values(languages) = {all[i].language : i \in DOMAIN all}
      /\ Values(editors) = {all[i].editor : i \in DOMAIN all}
      /\ Values(teams) = {teamsData[i].name : i \in DOMAIN teamsData} \ {""}
      /\ StrictlyAscending(languages)
      /\ StrictlyAscending(editors)
      /\ StrictlyAscending(teams)

\* the refresh for team alpha replaced the records: the languages are
\* rebuilt from them ("py" is gone), and the team list, which names alpha
\* twice and one team not at all, gives one team item
C34_RebuiltAfterRefreshWitness ==
  /\ apiData = AlphaMetrics
  /\ Values(languages) = {"go"}
  /\ Values(editors) = {"vim", "vsc"}
  /\ Len(editors) = 2
  /\ Len(teamsData) = 3
  /\ Len(teams) = 1

(***************************************************************************)
(* getCopilotTeamsMetricsFromApi on its own, its parallel requests         *)
(* settling in either order.                                               *)
(***************************************************************************)
Racers == {"alpha", "beta"}

RaceInit ==
  /\ FreshStore
  /\ args \in {[fn |-> "getCopilotTeamsMetricsFromApi", filter |-> filter,
                team |-> team, outcome |-> outcome, first |-> first] :
                 filter \in Filters, team \in TeamLists,
                 outcome \in [Entities -> FetchOutcomes], first \in Racers}
  /\ result = NotCalled

RaceTeamsMetrics ==
  /\ args.fn = "getCopilotTeamsMetricsFromApi"
  /\ result = NotCalled
  /\ result' =
       getCopilotTeamsMetricsFromApi(
         [startDate |-> args.filter.startDate, endDate |-> args.filter.endDate,
          enterprise |-> args.filter.enterprise,
          organization |-> args.filter.organization, team |-> args.team],
         ApiRacing(args.filter, args.outcome, WholeRange, args.first))
  /\ UNCHANGED <<storeVars, args>>

RaceNext == RaceTeamsMetrics

RaceSpec == RaceInit /\ [][RaceNext]_vars

\* getCopilotTeamsMetricsFromApi has returned
Raced == args.fn = "getCopilotTeamsMetricsFromApi" /\ result # NotCalled

\* the positions of the team list whose request had that outcome
PositionsOf(outcome) ==
  {i \in DOMAIN args.team : args.outcome[args.team[i]] = outcome}

\* the least position of a non-empty set of positions
FirstPosition(positions) == CHOOSE i \in positions : \A j \in positions : i <= j

(***************************************************************************)
(* C35 (as written): when per-team requests fail, the call returns the     *)
(* error of the failing team that comes first in the team list, whichever  *)
(* request settles first.                                                  *)
(***************************************************************************)
C35_FirstFailingTeamInInputOrder ==
  LET failing == PositionsOf("error") \cup PositionsOf("throws")
  IN (Raced /\ failing # {}) =>
       LET t == args.team[FirstPosition(failing)]
       IN  result = IF args.outcome[t] = "error"
                    THEN [status |-> "ERROR", errors |-> t]
                    ELSE unknownResponseError(Thrown(t))

(***************************************************************************)
(* C35 (amended): when no per-team request throws and some are answered    *)
(* with a non-success status, the call returns the error of the failing    *)
(* team that comes first in the team list, whichever request settles       *)
(* first; when a per-team request throws, the call returns the exception   *)
(* of the throwing request that settles first, wrapped.                    *)
(***************************************************************************)
C35_FirstErrorOrFirstException ==
  LET failing == PositionsOf("error")
      throwing == {args.team[i] : i \in PositionsOf("throws")}
  IN Raced =>
       /\ throwing # {} =>
            result = unknownResponseError(
                       Thrown(IF args.first \in throwing THEN args.first
                              ELSE CHOOSE t \in throwing : TRUE))
       /\ (throwing = {} /\ failing # {}) =>
            result = [status |-> "ERROR",
                      errors |-> args.team[FirstPosition(failing)]]

\* both teams were answered with a non-success status, the request of the
\* second team first: the error returned is that of the first team
C35_BothFailSecondSettlesFirstWitness ==
  /\ Raced
  /\ args.team = <<"alpha", "beta">>
  /\ args.outcome["alpha"] = "error"
  /\ args.outcome["beta"] = "error"
  /\ args.first = "beta"
  /\ result = [status |-> "ERROR", errors |-> "alpha"]

\* rows holds one row per bucket of the store's records that pass the
\* weekend filter (for the daily time frame, one row per such record)
OneRowPerBucket(this, rows) ==
  LET passing == IF this.hideWeekends THEN SelectSeq(this.apiData, IsWeekday)
                 ELSE this.apiData
      labels == {BucketLabel(passing[i], this.timeFrame) : i \in DOMAIN passing}
  IN IF this.timeFrame = "daily"
     THEN Len(rows) = Len(passing)
     ELSE /\ {rows[i].time_frame_display : i \in DOMAIN rows} = labels
          /\ Len(rows) = Cardinality(labels)

(***************************************************************************)
(* C36: with no language and no editor selected, filteredData holds, for   *)
(* the weekly and monthly time frames, exactly one row per week or month   *)
(* label occurring among the records of apiData that pass the weekend      *)
(* filter, and for the daily time frame one row per such record.  After an *)
(* initData that ran applyFilters on the selections it then dropped (C1),  *)
(* rows are missing although nothing is selected.                          *)
(***************************************************************************)
C36_OneRowPerBucket ==
  (Mounted /\ Selected(languages) = {} /\ Selected(editors) = {}) =>
    OneRowPerBucket(Store, filteredData)

(***************************************************************************)
(* C37: while hideWeekends is true no row of filteredData is a Saturday or *)
(* Sunday record; toggleWeekendFilter(true) removes the weekend records    *)
(* before the buckets are formed, so that with nothing selected the rows   *)
(* are exactly the buckets of the weekday records (a bucket of weekend     *)
(* records only is absent, a bucket with a weekday record present);        *)
(* toggleWeekendFilter(false) afterwards gives the rows of all records     *)
(* again, and neither call changes apiData.                                *)
(***************************************************************************)
C37_WeekendsRemovedBeforeBucketing ==
  /\ hideWeekends => \A i \in DOMAIN filteredData : IsWeekday(filteredData[i])
  /\ Mounted =>
       LET hidden == toggleWeekendFilter(Store, TRUE)
           shown == toggleWeekendFilter(hidden, FALSE)
       IN  /\ hidden.apiData = apiData
           /\ shown.apiData = apiData
           /\ \A i \in DOMAIN hidden.filteredData : IsWeekday(hidden.filteredData[i])
           /\ (Selected(languages) = {} /\ Selected(editors) = {}) =>
                /\ OneRowPerBucket(hidden, hidden.filteredData)
                /\ OneRowPerBucket(shown, shown.filteredData)

\* the records of team alpha are a Saturday in week W1 and a Monday in week
\* W2: with the weekends hidden the weekly view has the row of W2 only,
\* and showing the weekends again would give two rows
C37_WeekendBucketHiddenWitness ==
  /\ hideWeekends
  /\ timeFrame = "weekly"
  /\ apiData = AlphaMetrics
  /\ Len(filteredData) = 1
  /\ filteredData[1].time_frame_display = "W2"
  /\ Len(toggleWeekendFilter(Store, FALSE).filteredData) = 2

\* after has the server data, the stored filter and the loading flag of before
SameServerData(after, before) ==
  /\ after.apiData = before.apiData
  /\ after.seatsData = before.seatsData
  /\ after.teamsData = before.teamsData
  /\ after.currentFilter = before.currentFilter
  /\ after.isLoading = before.isLoading

\* a step of one of the local filter operations
LocalStep ==
  \/ \E v \in LanguageValues : SelectLanguage(v)
  \/ \E v \in EditorValues : SelectEditor(v)
  \/ \E v \in TeamValues : SelectTeam(v)
  \/ \E hide \in BOOLEAN : HideWeekends(hide)
  \/ \E tf \in TimeFrames : ChangeTimeFrame(tf)

(***************************************************************************)
(* C38: filterLanguage, filterEditor, filterTeam, onTimeFrameChange and    *)
(* toggleWeekendFilter leave apiData, seatsData, teamsData, currentFilter  *)
(* and isLoading as they were and issue no request; apiData is replaced    *)
(* only by initData and by a refresh whose metrics call resolved with      *)
(* success, seatsData only by initData and by a refresh whose seats call   *)
(* resolved with success.                                                  *)
(***************************************************************************)
C38_LocalOperationsKeepServerData ==
  /\ [](Mounted =>
          /\ \A v \in LanguageValues : SameServerData(filterLanguage(Store, v), Store)
          /\ \A v \in EditorValues : SameServerData(filterEditor(Store, v), Store)
          /\ \A v \in TeamValues : SameServerData(filterTeam(Store, v), Store)
          /\ \A tf \in TimeFrames : SameServerData(onTimeFrameChange(Store, tf), Store)
          /\ \A hide \in BOOLEAN : SameServerData(toggleWeekendFilter(Store, hide), Store))
  /\ [][/\ inflight' # inflight => ~LocalStep
        /\ apiData' # apiData =>
             \/ \E call \in BagToSet(inflight) :
                  /\ Settled(call)
                  /\ \E outcome \in RefreshOutcomes \ {Rejected} :
                       /\ refreshMetricsData(call.metrics, outcome.metrics).success
                       /\ Settle(call, outcome)
             \/ inflight' = inflight /\ InitStep
        /\ seatsData' # seatsData =>
             \/ \E call \in BagToSet(inflight) :
                  /\ Settled(call)
                  /\ \E outcome \in RefreshOutcomes \ {Rejected} :
                       /\ refreshSeatsData(call.seats, outcome.seats).success
                       /\ Settle(call, outcome)
             \/ inflight' = inflight /\ InitStep]_vars

\* a language, the weekend filter, the daily time frame and team alpha were
\* chosen after the page load: the records, the seats and the team list are
\* those of the load and nothing was requested
C38_LocalChangesOnlyWitness ==
  /\ Selected(languages) = {"go"}
  /\ Selected(teams) = {"alpha"}
  /\ hasPendingTeamChanges
  /\ hideWeekends
  /\ timeFrame = "daily"
  /\ apiData = OrgMetrics
  /\ seatsData = OrgSeats
  /\ teamsData = TeamStore
  /\ currentFilter = ServerFilter
  /\ ~isLoading
  /\ inflight = EmptyBag

(***************************************************************************)
(* getDataFromApi on its own, request by request: the loop that follows    *)
(* the rel="next" links of the seat listing.  A URL of the listing is the  *)
(* number of the page it addresses.                                        *)
(***************************************************************************)
MaxPages == 4

\* no URL: null or the empty string
NoUrl == 0

\* the seats on a page of the listing
PageSeats(k) == IF k \in DOMAIN SeatStore THEN SeatStore[k] ELSE <<Seat("d", "", 0)>>

\* the Link header of page k of n: the links of the API, in its order; a
\* listing of one page has no Link header
LinkHeader(k, n) ==
  (IF k > 1 THEN <<[url |-> k - 1, rel |-> "prev"]>> ELSE <<>>)
    \o (IF k < n THEN <<[url |-> k + 1, rel |-> "next"]>> ELSE <<>>)
    \o (IF k > 1 THEN <<[url |-> 1, rel |-> "first"]>> ELSE <<>>)

\* getNextUrlFromLinkHeader: the URL of the first link whose rel is "next"
getNextUrlFromLinkHeader(linkHeader) ==
  LET next == {i \in DOMAIN linkHeader : linkHeader[i].rel = "next"}
  IN IF linkHeader = <<>> \/ next = {} THEN NoUrl
     ELSE linkHeader[CHOOSE i \in next : \A j \in next : i <= j].url

\* Variant of SeatsPage that leaves has_next_page as initialised.
SeatsPageWithoutNext(filter, seats, pageCount, url) ==
  [enterprise |-> filter.enterprise,
   organization |-> filter.organization,
   seats |-> seats,
   total_seats |-> Len(seats),
   total_active_seats |-> 0,
   page |-> pageCount,
   has_next_page |-> FALSE]

\* the CopilotSeatsData pushed for one response; url is the next URL.  The
\* enterprise branch leaves organization null and conversely.
SeatsPage(filter, seats, pageCount, url) ==
  [enterprise |-> filter.enterprise,
   organization |-> IF filter.enterprise # "" THEN "" ELSE filter.organization,
   seats |-> seats,
   total_seats |-> Len(seats),
   total_active_seats |-> 0,
   page |-> pageCount,
   has_next_page |-> url # NoUrl]

\* formatResponseError(entity, response)
formatResponseError(entityName) == [status |-> "ERROR", errors |-> entityName]

PageInit ==
  /\ FreshStore
  /\ args \in {[fn |-> "getDataFromApi", enterprise |-> enterprise,
                organization |-> "org", pages |-> pages, failing |-> failing] :
                 enterprise \in {"", "ent"}, pages \in 1 .. MaxPages,
                 failing \in 0 .. MaxPages}
  /\ result = NotCalled

\* getDataFromApi is entered: the first URL, pageCount = 1, no page yet
PageStart ==
  /\ args.fn = "getDataFromApi"
  /\ result = NotCalled
  /\ result' = [status |-> "fetching", url |-> 1, pageCount |-> 1, seats |-> <<>>]
  /\ UNCHANGED <<storeVars, args>>

\* one iteration of the do ... while loop, with what follows the loop when
\* the response has no next link
PageFetch ==
  /\ args.fn = "getDataFromApi"
  /\ result.status = "fetching"
  /\ LET entity == IF args.enterprise # "" THEN args.enterprise ELSE args.organization
         url == getNextUrlFromLinkHeader(LinkHeader(result.url, args.pages))
         seats == Append(result.seats,
                         SeatsPage(args, PageSeats(result.url), result.pageCount, url))
         allActiveSeatsCount == CountActive(Flatten(seats))
     IN result' =
          IF result.url = args.failing
          THEN formatResponseError(entity)
          ELSE IF url # NoUrl
          THEN [status |-> "fetching", url |-> url,
                pageCount |-> result.pageCount + 1, seats |-> seats]
          ELSE [status |-> "OK",
                response |-> [i \in DOMAIN seats |->
                                [seats[i] EXCEPT !.total_active_seats =
                                                   allActiveSeatsCount]]]
  /\ UNCHANGED <<storeVars, args>>

PageNext == PageStart \/ PageFetch

PageSpec == PageInit /\ [][PageNext]_vars

\* the function keeps running until it returns
PageFairSpec == PageSpec /\ WF_vars(PageNext)

\* getDataFromApi has returned
Listed == args.fn = "getDataFromApi" /\ result.status \in {"OK", "ERROR"}

(***************************************************************************)
(* C39: the seat listing fetch follows the rel="next" links until a        *)
(* response has none and then returns; on success it returns every page    *)
(* in the order fetched, numbered 1..n, has_next_page true on every page   *)
(* but the last; if a page is answered with a non-success status it        *)
(* returns that error and no page.                                         *)
(***************************************************************************)
C39_ListingFollowsNextLinks ==
  /\ <>Listed
  /\ [](Listed =>
          IF args.failing \in 1 .. args.pages
          THEN result = [status |-> "ERROR",
                         errors |-> IF args.enterprise # "" THEN args.enterprise
                                    ELSE args.organization]
          ELSE /\ result.status = "OK"
               /\ Len(result.response) = args.pages
               /\ \A i \in DOMAIN result.response :
                    /\ result.response[i].page = i
                    /\ result.response[i].seats = PageSeats(i)
                    /\ result.response[i].has_next_page = (i < args.pages))

\* a listing of three pages was fetched: three pages returned, the last
\* one without a next page
C39_ThreePagesListedWitness ==
  /\ Listed
  /\ args.pages = 3
  /\ result.status = "OK"
  /\ Len(result.response) = 3
  /\ result.response[2].has_next_page
  /\ ~result.response[3].has_next_page

====
